---- MODULE Spec2Model ----
(***************************************************************************)
(* A model of scipy/special/generate_ufuncs.py: the compiler that turns    *)
(* the registry of kernel signatures into ufunc inner loops and into       *)
(* fused-type scalar dispatch functions.                                   *)
(*                                                                         *)
(* Type-code strings of the source ("dd", "lD", "*i") are sequences of     *)
(* one-character strings (<<"d","d">>, <<"l","D">>, <<"*","i">>).          *)
(***************************************************************************)
EXTENDS Integers, Sequences, FiniteSets, TLC

VARIABLES pc, signatures, variants, all_loops, inarg_num, outarg_num, error,
          vinputs, voutputs, vresult,
          largs, loop, dims, i, elem, sf_error,
          args, steps, cursors, stored, check_fpe,
          fused, pt, pyres, cyres,
          FUNCS, ufuncs, fused_funcs, files,
          self_name, arg_sigs, arg_headers, returned

\* The generation of one registry line, iter_variants on its own, and one
\* generated loop with the call the host runtime makes of it.
genvars == <<signatures, variants, all_loops, inarg_num, outarg_num, error>>
itervars == <<vinputs, voutputs, vresult>>
loopvars == <<largs, loop, dims, i, elem, sf_error,
              args, steps, cursors, stored, check_fpe>>
\* The scalar function of the line, and one test point handed to both paths.
scalarvars == <<fused, pt, pyres, cyres>>

\* A run of main: the registry text, the parsed lists and the files written.
mainvars == <<FUNCS, ufuncs, fused_funcs, files>>

\* One call of Func._parse_signatures: the name of the object, the clauses
\* and the header names it is given, and what it returns or raises.
parsevars == <<self_name, arg_sigs, arg_headers, returned>>

vars == <<pc, genvars, itervars, loopvars, scalarvars, mainvars, parsevars>>

(***************************************************************************)
(* Bounds of the model.                                                    *)
(***************************************************************************)
\* Largest number of kernel signatures in one registry line.
MaxSigs == 2
\* Longest input / output code string handed to iter_variants on its own.
MaxLen == 2
\* Largest element count dims[0] a loop is called with.
MaxElems == 1
\* Widths of int and of long (LP64: long is the wider), scaled down.
IntBits == 3
LongBits == 5

\* The codes and arities from which registry lines are drawn.
SigCodes == {"i", "l", "f", "d", "D"}
SigArities == {1, 2}

(***************************************************************************)
(* Type codes (CY_TYPES, TYPE_NAMES).                                      *)
(***************************************************************************)
\* Keys of TYPE_NAMES: the codes a signature may use for inputs and outputs.
TYPE_NAMES == {"f", "d", "g", "F", "D", "G", "i", "l"}
\* Keys of CY_TYPES: the above and void.
CY_TYPES == TYPE_NAMES \cup {"v"}

\* Python's None where a number is expected.
None == 0 - 1
NoError == "none"

(***************************************************************************)
(* String helpers (str.replace, the in operator, re.sub).                  *)
(***************************************************************************)
\* s.replace(a, b) for one-character a and b.
Replace(s, a, b) == [k \in DOMAIN s |-> IF s[k] = a THEN b ELSE s[k]]

\* c in s
Contains(s, c) == \E k \in DOMAIN s : s[k] = c

RECURSIVE FirstStar(_, _)
\* Index of the first '*' of s at or after k, Len(s)+1 if there is none.
FirstStar(s, k) ==
    IF k > Len(s) THEN Len(s) + 1
    ELSE IF s[k] = "*" THEN k
    ELSE FirstStar(s, k + 1)

\* re.sub(r'\*.*', '', ret): what precedes the first '*'.
StripIgnored(ret) == SubSeq(ret, 1, FirstStar(ret, 1) - 1)

\* ret.replace('*', '')
RemoveStars(ret) == SelectSeq(ret, LAMBDA c : c # "*")

(***************************************************************************)
(* cast_order and the comparison of its lists.                             *)
(***************************************************************************)
CastOrderString == <<"i", "l", "f", "d", "g", "F", "D", "G">>

\* 'ilfdgFDG'.index(x)
CastIndex(x) == (CHOOSE k \in DOMAIN CastOrderString : CastOrderString[k] = x) - 1

cast_order(c) == [k \in DOMAIN c |-> CastIndex(c[k])]

RECURSIVE ListLess(_, _, _)
\* Python's a < b on lists of integers, compared from position k on.
ListLess(a, b, k) ==
    IF k > Len(a) THEN k <= Len(b)
    ELSE IF k > Len(b) THEN FALSE
    ELSE IF a[k] # b[k] THEN a[k] < b[k]
    ELSE ListLess(a, b, k + 1)

(***************************************************************************)
(* iter_variants.                                                          *)
(***************************************************************************)
RECURSIVE ReplaceAll(_, _, _, _)
\* for a, b in zip(src, dst): s = s.replace(a, b)
ReplaceAll(s, src, dst, k) ==
    IF k > Len(src) \/ k > Len(dst) THEN s
    ELSE ReplaceAll(Replace(s, src[k], dst[k]), src, dst, k + 1)

\* VariantMaps testing the inputs for 'i' only.
VariantMaps_IgnoresLong(inputs) ==
    LET base == << << <<"i">>, <<"l">> >> >>
    IN  IF ~Contains(inputs, "i")
        THEN base \o << << <<"i", "d", "D">>, <<"l", "f", "F">> >> >>
        ELSE base

\* VariantMaps adding the float32 map whatever the inputs.
VariantMaps_AlwaysSingle(inputs) ==
    << << <<"i">>, <<"l">> >>, << <<"i", "d", "D">>, <<"l", "f", "F">> >> >>

\* The list maps of iter_variants, as pairs <<src, dst>>.
VariantMaps(inputs) ==
    LET base == << << <<"i">>, <<"l">> >> >>
    IN  IF ~(Contains(inputs, "i") \/ Contains(inputs, "l"))
        THEN base \o [k \in DOMAIN base |->
                         << base[k][1] \o <<"d", "D">>, base[k][2] \o <<"f", "F">> >>]
        ELSE base

\* iter_variants yielding the int-to-long variant only.
iter_variants_OnlyLong(inputs, outputs) ==
    << << Replace(inputs, "i", "l"), Replace(outputs, "i", "l") >> >>

\* list(iter_variants(inputs, outputs)): the pairs in the order they are yielded.
iter_variants(inputs, outputs) ==
    LET maps == VariantMaps(inputs)
    IN  [k \in DOMAIN maps |->
            << ReplaceAll(inputs, maps[k][1], maps[k][2], 1),
               ReplaceAll(outputs, maps[k][1], maps[k][2], 1) >>]

(***************************************************************************)
(* DANGEROUS_DOWNCAST and NAN_VALUE.                                       *)
(***************************************************************************)
\* Pairs <<source code, destination code>>.
DANGEROUS_DOWNCAST ==
    {<<"F", "i">>, <<"F", "l">>, <<"F", "f">>, <<"F", "d">>, <<"F", "g">>,
     <<"D", "i">>, <<"D", "l">>, <<"D", "f">>, <<"D", "d">>, <<"D", "g">>,
     <<"G", "i">>, <<"G", "l">>, <<"G", "f">>, <<"G", "d">>, <<"G", "g">>,
     <<"f", "i">>, <<"f", "l">>,
     <<"d", "i">>, <<"d", "l">>,
     <<"g", "i">>, <<"g", "l">>,
     <<"l", "i">>}

\* NAN_VALUE[code], as the name of the C constant.
NAN_VALUE(code) == IF code \in {"i", "l"} THEN "0xbad0bad0" ELSE "NPY_NAN"

(***************************************************************************)
(* generate_loop: the loop it emits, as a record of what the emitted text  *)
(* declares and does.                                                      *)
(***************************************************************************)
InputChecks_Swapped(func_inputs, ufunc_inputs) ==
    {j \in DOMAIN func_inputs : <<func_inputs[j], ufunc_inputs[j]>> \in DANGEROUS_DOWNCAST}

\* The input slots j for which generate_loop emits a cast check.
InputChecks(func_inputs, ufunc_inputs) ==
    {j \in DOMAIN func_inputs : <<ufunc_inputs[j], func_inputs[j]>> \in DANGEROUS_DOWNCAST}

\* OutputChecks testing the pair (row code, kernel code).
OutputChecks_Swapped(outtypecodes, ufunc_outputs) ==
    {j \in DOMAIN ufunc_outputs \cap DOMAIN outtypecodes :
        <<ufunc_outputs[j], outtypecodes[j]>> \in DANGEROUS_DOWNCAST}

\* The output slots j for which generate_loop emits a cast check:
\* zip(ufunc_outputs, outtypecodes).
OutputChecks(outtypecodes, ufunc_outputs) ==
    {j \in DOMAIN ufunc_outputs \cap DOMAIN outtypecodes :
        <<outtypecodes[j], ufunc_outputs[j]>> \in DANGEROUS_DOWNCAST}

\* "loop_%s_%s_%s_As_%s_%s"
LoopName(func_inputs, func_outputs, func_retval, ufunc_inputs, ufunc_outputs) ==
    <<"loop", func_retval, func_inputs, func_outputs, "As", ufunc_inputs, ufunc_outputs>>

generate_loop(func_inputs, func_outputs, func_retval, ufunc_inputs, ufunc_outputs) ==
    LET func_joff == IF Len(func_outputs) + 1 = Len(ufunc_outputs) THEN 1 ELSE 0
        outtypecodes == (IF func_joff = 1 THEN func_retval ELSE <<>>) \o func_outputs
        name == LoopName(func_inputs, func_outputs, func_retval,
                         ufunc_inputs, ufunc_outputs)
        failed(msg) == [err |-> msg, name |-> name]
    IN  IF Len(func_inputs) # Len(ufunc_inputs)
        THEN failed("ValueError: Function and ufunc have different number of inputs")
        ELSE IF Len(func_outputs) # Len(ufunc_outputs)
                /\ ~(func_retval # <<"v">> /\ Len(func_outputs) + 1 = Len(ufunc_outputs))
        THEN failed("ValueError: Function retval and ufunc outputs don't match")
        ELSE IF ~(Len(func_retval) = 1 /\ func_retval[1] \in CY_TYPES)
        THEN failed("KeyError: CY_TYPES[func_retval]")
        ELSE [err |-> NoError,
              name |-> name,
              func_inputs |-> func_inputs,
              func_outputs |-> func_outputs,
              func_retval |-> func_retval[1],
              ufunc_inputs |-> ufunc_inputs,
              ufunc_outputs |-> ufunc_outputs,
              func_joff |-> func_joff,
              outtypecodes |-> outtypecodes,
              input_checks |-> InputChecks(func_inputs, ufunc_inputs),
              output_checks |-> OutputChecks(outtypecodes, ufunc_outputs)]

(***************************************************************************)
(* Ufunc._get_signatures_and_loops.                                        *)
(***************************************************************************)
\* The ufunc output codes of a signature: re.sub(r'\*.*', '', ret) + outarg.
SigOutp(sig) == StripIgnored(sig.ret) \o sig.outarg

\* add_variant without the test "if inp in seen".
add_variant_NoSeen(st, sig, inp, outp) ==
    IF st.error # NoError THEN st
    ELSE LET st1 == [st EXCEPT !.seen = @ \cup {inp}]
             lp == generate_loop(sig.inarg, sig.outarg, RemoveStars(sig.ret), inp, outp)
         IN  IF Contains(outp, "v")
             THEN [st1 EXCEPT !.error = "ValueError: void signature"]
             ELSE IF Len(inp) # st.inarg_num \/ Len(outp) # st.outarg_num
             THEN [st1 EXCEPT !.error = "ValueError: wrong number of input/output args"]
             ELSE IF lp.err # NoError
             THEN [st1 EXCEPT !.error = lp.err]
             ELSE [st1 EXCEPT
                      !.all_loops = {l \in @ : l.name # lp.name} \cup {lp},
                      !.variants = Append(@, [func_name |-> sig.func_name,
                                              loop_name |-> lp.name,
                                              inp |-> inp,
                                              outp |-> outp])]

\* The nested function add_variant, on the locals st of the enclosing call.
add_variant(st, sig, inp, outp) ==
    IF st.error # NoError THEN st
    ELSE IF inp \in st.seen THEN st
    ELSE LET st1 == [st EXCEPT !.seen = @ \cup {inp}]
             lp == generate_loop(sig.inarg, sig.outarg, RemoveStars(sig.ret), inp, outp)
         IN  IF Contains(outp, "v")
             THEN [st1 EXCEPT !.error = "ValueError: void signature"]
             ELSE IF Len(inp) # st.inarg_num \/ Len(outp) # st.outarg_num
             THEN [st1 EXCEPT !.error = "ValueError: wrong number of input/output args"]
             ELSE IF lp.err # NoError
             THEN [st1 EXCEPT !.error = lp.err]
             ELSE [st1 EXCEPT
                      !.all_loops = {l \in @ : l.name # lp.name} \cup {lp},
                      !.variants = Append(@, [func_name |-> sig.func_name,
                                              loop_name |-> lp.name,
                                              inp |-> inp,
                                              outp |-> outp])]

RECURSIVE AddVariants(_, _, _, _)
\* for inp, outp in vs[k:]: add_variant(...)
AddVariants(st, sig, vs, k) ==
    IF k > Len(vs) THEN st
    ELSE AddVariants(add_variant(st, sig, vs[k][1], vs[k][2]), sig, vs, k + 1)

\* _get_signatures_and_loops without its first pass: only the arity is taken.
BaseVariants_SinglePass(st, sigs, k) ==
    IF sigs = <<>> THEN st
    ELSE [st EXCEPT !.inarg_num = Len(sigs[1].inarg),
                    !.outarg_num = Len(StripIgnored(sigs[1].ret) \o sigs[1].outarg)]

RECURSIVE BaseVariants(_, _, _)
\* The loop "First add base variants", from signature k on.
BaseVariants(st, sigs, k) ==
    IF k > Len(sigs) \/ st.error # NoError THEN st
    ELSE LET sig == sigs[k]
             outp == SigOutp(sig)
             st1 == IF st.inarg_num = None
                    THEN [st EXCEPT !.inarg_num = Len(sig.inarg), !.outarg_num = Len(outp)]
                    ELSE st
             vs == iter_variants(sig.inarg, outp)
         IN  BaseVariants(add_variant(st1, sig, vs[1][1], vs[1][2]), sigs, k + 1)

RECURSIVE SupplementaryVariants(_, _, _)
\* The loop "Then the supplementary ones", from signature k on.
SupplementaryVariants(st, sigs, k) ==
    IF k > Len(sigs) \/ st.error # NoError THEN st
    ELSE LET sig == sigs[k]
             vs == iter_variants(sig.inarg, SigOutp(sig))
         IN  SupplementaryVariants(AddVariants(st, sig, vs, 1), sigs, k + 1)

RECURSIVE InsertByKey(_, _)
\* Put row v into the sorted list s behind every row whose key is not greater.
InsertByKey(s, v) ==
    IF s = <<>> THEN <<v>>
    ELSE IF ListLess(cast_order(v.inp), cast_order(Head(s).inp), 1)
    THEN <<v>> \o s
    ELSE <<Head(s)>> \o InsertByKey(Tail(s), v)

\* The table left in the order the rows were added.
SortVariants_Unsorted(sorted, rest) == sorted \o rest

RECURSIVE SortVariants(_, _)
\* variants.sort(key=lambda v: cast_order(v[2])): a stable sort.
SortVariants(sorted, rest) ==
    IF rest = <<>> THEN sorted
    ELSE SortVariants(InsertByKey(sorted, Head(rest)), Tail(rest))

\* The whole of _get_signatures_and_loops(all_loops) on the signatures sigs.
get_signatures_and_loops(sigs, loops) ==
    LET st0 == [seen |-> {}, variants |-> <<>>, inarg_num |-> None,
                outarg_num |-> None, all_loops |-> loops, error |-> NoError]
        st1 == BaseVariants(st0, sigs, 1)
        st2 == SupplementaryVariants(st1, sigs, 1)
    IN  IF st2.error # NoError THEN st2
        ELSE [st2 EXCEPT !.variants = SortVariants(<<>>, @)]

(***************************************************************************)
(* The registry lines of the model.                                        *)
(***************************************************************************)
KernelNames == <<"kernelA", "kernelB", "kernelC", "kernelD">>

\* Input code strings of the lines.
InputPool == UNION {[1..n -> SigCodes] : n \in SigArities}

\* The return code the registry pairs with an input string: complex for
\* complex input, double otherwise.
NaturalCode(inarg) == IF Contains(inarg, "D") THEN "D" ELSE "d"

\* The two call shapes of the lines, "in->X" and "in*X->*i", as <<outarg, ret>>.
ShapeKinds == {"return", "outarg"}

OutShape(kind, inarg) ==
    CASE kind = "return" -> << <<>>, <<NaturalCode(inarg)>> >>
      [] kind = "outarg" -> << <<NaturalCode(inarg)>>, <<"*", "i">> >>
      [] kind = "outarg2" -> << <<NaturalCode(inarg), "d">>, <<"*", "i">> >>
      [] kind = "both" -> << <<NaturalCode(inarg)>>, <<"i">> >>
      [] kind = "neither" -> << <<>>, <<"*", "i">> >>

\* A parsed signature: (func_name, inarg, outarg, ret, header).
MkSig(k, kind, inarg) ==
    [func_name |-> KernelNames[k], inarg |-> inarg, outarg |-> OutShape(kind, inarg)[1],
     ret |-> OutShape(kind, inarg)[2], header |-> "cephes.h"]

\* sigs is a registry line of n kernels of one call shape.
IsGroup(sigs, n) ==
    \E kind \in ShapeKinds : \E g \in [1..n -> InputPool] :
        sigs = [k \in 1..n |-> MkSig(k, kind, g[k])]

(***************************************************************************)
(* Building the dispatch table of one registry line.                       *)
(***************************************************************************)
IterIdle == /\ vinputs = <<>>
            /\ voutputs = <<>>
            /\ vresult = <<>>

LoopIdle == /\ largs = <<>>
            /\ loop = <<>>
            /\ dims = 0
            /\ i = 0
            /\ elem = <<>>
            /\ sf_error = <<>>
            /\ args = <<>>
            /\ steps = <<>>
            /\ cursors = <<>>
            /\ stored = <<>>
            /\ check_fpe = 0

ScalarIdle == /\ fused = <<>>
              /\ pt = <<>>
              /\ pyres = <<>>
              /\ cyres = <<>>

MainIdle == /\ FUNCS = <<>>
            /\ ufuncs = <<>>
            /\ fused_funcs = <<>>
            /\ files = <<>>

ParseIdle == /\ self_name = <<>>
             /\ arg_sigs = <<>>
             /\ arg_headers = <<>>
             /\ returned = <<>>

GenIdle == /\ signatures = <<>>
           /\ variants = <<>>
           /\ all_loops = {}
           /\ inarg_num = None
           /\ outarg_num = None
           /\ error = NoError

Init ==
    /\ pc = "parsed"
    /\ \E n \in 1..MaxSigs : IsGroup(signatures, n)
    /\ variants = <<>>
    /\ all_loops = {}
    /\ inarg_num = None
    /\ outarg_num = None
    /\ error = NoError
    /\ IterIdle
    /\ LoopIdle
    /\ ScalarIdle
    /\ MainIdle
    /\ ParseIdle

\* Ufunc.generate's call of _get_signatures_and_loops returns.
GetSignaturesAndLoops ==
    /\ pc = "parsed"
    /\ LET st == get_signatures_and_loops(signatures, all_loops)
       IN  /\ st.error = NoError
           /\ pc' = "table"
           /\ variants' = st.variants
           /\ all_loops' = st.all_loops
           /\ inarg_num' = st.inarg_num
           /\ outarg_num' = st.outarg_num
    /\ UNCHANGED <<signatures, error, itervars, loopvars, scalarvars, mainvars, parsevars>>

\* Ufunc.generate's call of _get_signatures_and_loops raises.
GetSignaturesAndLoopsFails ==
    /\ pc = "parsed"
    /\ LET st == get_signatures_and_loops(signatures, all_loops)
       IN  /\ st.error # NoError
           /\ pc' = "failed"
           /\ error' = st.error
           /\ all_loops' = st.all_loops
    /\ UNCHANGED <<signatures, variants, inarg_num, outarg_num, itervars, loopvars, scalarvars, mainvars, parsevars>>

Next == GetSignaturesAndLoops \/ GetSignaturesAndLoopsFails

Spec == Init /\ [][Next]_vars

(***************************************************************************)
(* iter_variants on its own: any pair of code strings.                     *)
(***************************************************************************)
\* Code strings of length at most n.
CodeStrings(n) == UNION {[1..m -> TYPE_NAMES] : m \in 0..n}

InitVariants ==
    /\ pc = "variants"
    /\ vinputs \in CodeStrings(MaxLen)
    /\ voutputs \in CodeStrings(MaxLen)
    /\ vresult = <<>>
    /\ GenIdle
    /\ LoopIdle
    /\ ScalarIdle
    /\ MainIdle
    /\ ParseIdle

\* list(iter_variants(vinputs, voutputs))
IterVariants ==
    /\ pc = "variants"
    /\ pc' = "yielded"
    /\ vresult' = iter_variants(vinputs, voutputs)
    /\ UNCHANGED <<genvars, loopvars, vinputs, voutputs, scalarvars, mainvars, parsevars>>

NextVariants == IterVariants

SpecVariants == InitVariants /\ [][NextVariants]_vars

(***************************************************************************)
(* The values of the C types behind the codes, and the C casts between     *)
(* them.  A value is [re, im, nan]: re and im count quarters (1.25 is 5),  *)
(* nan marks a not-a-number.  int and long hold whole numbers of IntBits   *)
(* and LongBits bits; float holds halves, double and long double quarters. *)
(***************************************************************************)
RECURSIVE Pow2(_)
Pow2(n) == IF n = 0 THEN 1 ELSE 2 * Pow2(n - 1)

Real(q) == [re |-> q, im |-> 0, nan |-> FALSE]
Cplx(q, r) == [re |-> q, im |-> r, nan |-> FALSE]
NaN == [re |-> 0, im |-> 0, nan |-> TRUE]
Whole(n) == Real(4 * n)

IsIntCode(c) == c \in {"i", "l"}
IsRealCode(c) == c \in {"f", "d", "g"}

Bits(c) == IF c = "i" THEN IntBits ELSE LongBits
MinOf(c) == 0 - Pow2(Bits(c) - 1)
MaxOf(c) == Pow2(Bits(c) - 1) - 1

\* Conversion of the integer n to the integer type c: reduction modulo 2^Bits.
Wrap(n, c) == ((n + Pow2(Bits(c) - 1)) % Pow2(Bits(c))) - Pow2(Bits(c) - 1)

\* Conversion of q quarters to an integer: the fraction is discarded.
Trunc(q) == IF q >= 0 THEN q \div 4 ELSE 0 - ((0 - q) \div 4)

\* Conversion of q quarters to float: the nearest half, ties to the even one.
RoundSingle(q) ==
    IF q % 2 = 0 THEN q
    ELSE IF (q + 1) % 4 = 0 THEN q + 1 ELSE q - 1

\* What a build makes of a floating value that the integer type cannot hold
\* (undefined in C): the least value, the greatest value or zero.
UBOutcomes == {"min", "max", "zero"}
UBValue(ub, c) == CASE ub = "min" -> MinOf(c) [] ub = "max" -> MaxOf(c) [] OTHER -> 0

\* The C cast <to>v of a value v of type from.
Cast(from, to, v, ub) ==
    IF IsIntCode(to)
    THEN IF IsIntCode(from) THEN Whole(Wrap(v.re \div 4, to))
         ELSE IF v.nan \/ Trunc(v.re) < MinOf(to) \/ Trunc(v.re) > MaxOf(to)
              THEN Whole(UBValue(ub, to))
              ELSE Whole(Trunc(v.re))
    ELSE IF v.nan THEN NaN
    ELSE IF IsRealCode(to)
    THEN Real(IF to = "f" THEN RoundSingle(v.re) ELSE v.re)
    ELSE IF to = "F" THEN Cplx(RoundSingle(v.re), RoundSingle(v.im))
    ELSE Cplx(v.re, v.im)

\* The C comparison a == b.
Eq(a, b) == ~a.nan /\ ~b.nan /\ a.re = b.re /\ a.im = b.im

\* 0xbad0bad0: needs all the bits of an unsigned int, fits a long.
BadPattern == Pow2(IntBits) - 3

Sentinel_AlwaysNaN(code) == NaN

\* <type of code>NAN_VALUE[code]
Sentinel(code) ==
    IF NAN_VALUE(code) = "0xbad0bad0" THEN Whole(Wrap(BadPattern, code)) ELSE NaN

\* The values of each type that buffers and kernels hold in the model.
Samples(c) ==
    CASE c = "i" -> {Whole(1), Whole(MaxOf("i"))}
      [] c = "l" -> {Whole(1), Whole(MaxOf("i") + 1)}
      [] c = "f" -> {Real(4), Real(6), NaN}
      [] c = "d" -> {Real(4), Real(5), Real(6), NaN, Whole(Pow2(LongBits))}
      [] c = "g" -> {Real(4), NaN}
      [] c = "F" -> {Cplx(4, 0), Cplx(4, 6)}
      [] c = "D" -> {Cplx(4, 0), Cplx(4, 5), NaN}
      [] c = "G" -> {Cplx(4, 0), Cplx(4, 5)}

\* One value of each code of the code string s.
SampleTuples(s) == {t \in [DOMAIN s -> UNION {Samples(c) : c \in TYPE_NAMES}] :
                        \A j \in DOMAIN s : t[j] \in Samples(s[j])}

(***************************************************************************)
(* One pass of the body of a generated loop: the element ip of the input   *)
(* buffers, a kernel that would produce kout in the holders ov.            *)
(***************************************************************************)
SfError(func_name, msg) == [func_name |-> func_name, code |-> "DOMAIN", msg |-> msg]

\* LoopBody reporting "invalid input argument" once for each failing input.
LoopBody_ErrorPerInput(lp, func_name, ip, kout, ub) ==
    LET arg(j) == Cast(lp.ufunc_inputs[j], lp.func_inputs[j], ip[j], ub)
        nfail == Cardinality({j \in lp.input_checks : ~Eq(arg(j), ip[j])})
        ov == IF nfail = 0 THEN kout
              ELSE [j \in DOMAIN lp.outtypecodes |-> Sentinel(lp.outtypecodes[j])]
        slots == DOMAIN lp.ufunc_outputs \cap DOMAIN lp.outtypecodes
        conv(j) == Cast(lp.outtypecodes[j], lp.ufunc_outputs[j], ov[j], ub)
        bad(j) == j \in lp.output_checks /\ ~Eq(ov[j], conv(j))
        nbad == Cardinality({j \in slots : bad(j)})
    IN  [ip |-> ip,
         called |-> nfail = 0,
         kargs |-> IF nfail = 0 THEN [j \in DOMAIN lp.func_inputs |-> arg(j)] ELSE <<>>,
         ov |-> ov,
         op |-> [j \in slots |->
                    IF bad(j) THEN Sentinel(lp.ufunc_outputs[j]) ELSE conv(j)],
         bad |-> {j \in slots : bad(j)},
         errors |-> [k \in 1..nfail |-> SfError(func_name, "invalid input argument")]
                    \o [k \in 1..nbad |-> SfError(func_name, "invalid output")]]

\* The emitted statements between "for i in range(n):" and the cursor updates.
LoopBody(lp, func_name, ip, kout, ub) ==
    LET arg(j) == Cast(lp.ufunc_inputs[j], lp.func_inputs[j], ip[j], ub)
        called == \A j \in lp.input_checks : Eq(arg(j), ip[j])
        ov == IF called THEN kout
              ELSE [j \in DOMAIN lp.outtypecodes |-> Sentinel(lp.outtypecodes[j])]
        slots == DOMAIN lp.ufunc_outputs \cap DOMAIN lp.outtypecodes
        conv(j) == Cast(lp.outtypecodes[j], lp.ufunc_outputs[j], ov[j], ub)
        bad(j) == j \in lp.output_checks /\ ~Eq(ov[j], conv(j))
        nbad == Cardinality({j \in slots : bad(j)})
    IN  [ip |-> ip,
         called |-> called,
         kargs |-> IF called THEN [j \in DOMAIN lp.func_inputs |-> arg(j)] ELSE <<>>,
         ov |-> ov,
         op |-> [j \in slots |->
                    IF bad(j) THEN Sentinel(lp.ufunc_outputs[j]) ELSE conv(j)],
         bad |-> {j \in slots : bad(j)},
         errors |-> (IF called THEN <<>>
                     ELSE <<SfError(func_name, "invalid input argument")>>)
                    \o [k \in 1..nbad |-> SfError(func_name, "invalid output")]]

(***************************************************************************)
(* generate_loop on its own, and the generated loop at work.               *)
(***************************************************************************)
\* Codes of the loops with several slots.
CoreInPairs == {<<"", "">>, <<"i", "l">>, <<"d", "d">>, <<"d", "">>}
CoreOutCodes == {"i", "d"}
RowOutCodes == {"i", "f", "d"}

Strings(codes, lo, hi) == UNION {[1..m -> codes] : m \in lo..hi}

\* A code string of at most one code, from the Python string c.
Str(c) == IF c = "" THEN <<>> ELSE <<c>>

LoopArgs(fi, fo, fr, ui, uo) ==
    [func_inputs |-> fi, func_outputs |-> fo, func_retval |-> fr,
     ufunc_inputs |-> ui, ufunc_outputs |-> uo]

\* The arguments generate_loop is called with in the model: every pair of
\* codes in one input slot, every pair in one output slot, and the shapes of
\* at most one output parameter and two ufunc outputs over the core codes,
\* the rejected ones included, and two loops of two long inputs, a returned
\* double and an int output parameter.
IsLoopArgs(a) ==
    \/ \E f, u \in TYPE_NAMES : a = LoopArgs(<<f>>, <<>>, <<"d">>, <<u>>, <<"d">>)
    \/ \E f, u \in TYPE_NAMES : a = LoopArgs(<<"d">>, <<>>, <<f>>, <<"d">>, <<u>>)
    \/ \E ins \in CoreInPairs,
          fo \in Strings(CoreOutCodes, 0, 1), uo \in Strings(RowOutCodes, 0, 2),
          fr \in Strings(CoreOutCodes \cup {"v"}, 1, 1) :
          a = LoopArgs(Str(ins[1]), fo, fr, Str(ins[2]), uo)
    \/ \E f \in {"i", "d"} :
          a = LoopArgs(<<"i", f>>, <<"i">>, <<"d">>, <<"l", "l">>, <<"d", "i">>)

\* The data argument of the loop: (kernel pointer, name for error reports).
LoopData == [func |-> "kernelA", func_name |-> "ufunc"]

\* The arrays of a call: the inputs, then the outputs.
ArgSlots(a) == 1..(Len(a.ufunc_inputs) + Len(a.ufunc_outputs))

\* The args of a call: array k starts at address k.
BaseAddresses(a) == [k \in ArgSlots(a) |-> k]

\* The steps of a call on contiguous arrays, in elements.
Contiguous(a) == [k \in ArgSlots(a) |-> 1]

\* ip%d += steps[%d] for the inputs, op%d += steps[%d] for the outputs, every
\* cursor moved by the one stride steps[0].
Advance_FirstStride(at, by) == [k \in DOMAIN at |-> at[k] + by[1]]

\* ip%d += steps[%d] for the inputs, op%d += steps[%d] for the outputs.
Advance(at, by) == [k \in DOMAIN at |-> at[k] + by[k]]

\* The addresses the output slots of a loop are stored to: (<T *>op%d)[0] = ...
\* for each pair of zip(ufunc_outputs, outtypecodes).
Stores(lp, at, op) == [j \in DOMAIN op |-> at[Len(lp.ufunc_inputs) + j]]

\* What a call of the kernel leaves: its return value, nothing for void.
ReturnSamples(func_retval) == IF func_retval = "v" THEN {<<>>} ELSE Samples(func_retval)

\* The kernel's values in the holders, the return value behind the output
\* parameters.
Holders_ReturnLast(lp, retval, outputs) ==
    IF lp.func_joff = 1 THEN outputs \o <<retval>> ELSE outputs

\* The holders ov%d after the call "ov0 = func(..., &ov1, ...)" of a row with
\* one more output than the kernel has output parameters, or after the call
\* "func(..., &ov0, ...)", which drops the return value.
Holders(lp, retval, outputs) ==
    IF lp.func_joff = 1 THEN <<retval>> \o outputs ELSE outputs

InitLoop ==
    /\ pc = "args"
    /\ IsLoopArgs(largs)
    /\ loop = <<>>
    /\ dims = 0
    /\ i = 0
    /\ elem = <<>>
    /\ sf_error = <<>>
    /\ args = BaseAddresses(largs)
    /\ steps = Contiguous(largs)
    /\ cursors = <<>>
    /\ stored = <<>>
    /\ check_fpe = 0
    /\ GenIdle
    /\ IterIdle
    /\ ScalarIdle
    /\ MainIdle
    /\ ParseIdle

\* generate_loop(func_inputs, func_outputs, func_retval, ufunc_inputs, ufunc_outputs)
GenerateLoop ==
    /\ pc = "args"
    /\ loop' = generate_loop(largs.func_inputs, largs.func_outputs, largs.func_retval,
                             largs.ufunc_inputs, largs.ufunc_outputs)
    /\ pc' = IF loop'.err = NoError THEN "generated" ELSE "rejected"
    /\ UNCHANGED <<genvars, itervars, largs, dims, i, elem, sf_error, scalarvars, mainvars, parsevars>>
    /\ UNCHANGED <<args, steps, cursors, stored, check_fpe>>

\* The runtime calls the loop: n = dims[0], the cursors ip%d = args[%d] and
\* op%d = args[%d] at the buffers' starts.
LoopEntry ==
    /\ pc = "generated"
    /\ \E n \in 0..MaxElems : dims' = n
    /\ i' = 0
    /\ cursors' = args
    /\ pc' = "running"
    /\ UNCHANGED <<genvars, itervars, largs, loop, elem, sf_error, scalarvars, mainvars, parsevars>>
    /\ UNCHANGED <<args, steps, stored, check_fpe>>

\* One iteration of "for i in range(n)", with the values retval and outputs
\* that the kernel gives, or would give, for the element.
LoopIteration ==
    /\ pc = "running"
    /\ i < dims
    /\ \E ip \in SampleTuples(loop.ufunc_inputs),
          retval \in ReturnSamples(loop.func_retval),
          outputs \in SampleTuples(loop.func_outputs),
          ub \in UBOutcomes :
          /\ elem' = LoopBody(loop, LoopData.func_name, ip,
                              Holders(loop, retval, outputs), ub)
                         @@ [retval |-> retval, outputs |-> outputs]
          /\ sf_error' = sf_error \o elem'.errors
          /\ stored' = Stores(loop, cursors, elem'.op)
    /\ cursors' = Advance(cursors, steps)
    /\ i' = i + 1
    /\ UNCHANGED <<pc, genvars, itervars, largs, loop, dims, scalarvars, mainvars, parsevars>>
    /\ UNCHANGED <<args, steps, check_fpe>>

\* After the last iteration: sf_error.check_fpe(func_name), and return.
LoopExit ==
    /\ pc = "running"
    /\ i = dims
    /\ \E fpe \in BOOLEAN :
          sf_error' = IF fpe
                      THEN Append(sf_error, SfError(LoopData.func_name,
                                                    "floating point error"))
                      ELSE sf_error
    /\ check_fpe' = check_fpe + 1
    /\ pc' = "returned"
    /\ UNCHANGED <<genvars, itervars, largs, loop, dims, i, elem, scalarvars, mainvars, parsevars>>
    /\ UNCHANGED <<args, steps, cursors, stored>>

NextLoop == GenerateLoop \/ LoopEntry \/ LoopIteration \/ LoopExit

SpecLoop == InitLoop /\ [][NextLoop]_vars

(***************************************************************************)
(* The generated loop called on arrays of any strides.                     *)
(***************************************************************************)
\* The strides of the arrays in the model: a reversed view, a broadcast
\* scalar and every second element.
StrideSamples == {0 - 1, 0, 2}

\* The loops called on such arrays: one guarded input and one guarded output,
\* and two guarded inputs with two outputs.
IsStrideArgs(a) ==
    \/ a = LoopArgs(<<"i">>, <<>>, <<"d">>, <<"l">>, <<"i">>)
    \/ a = LoopArgs(<<"i", "i">>, <<"i">>, <<"d">>, <<"l", "l">>, <<"d", "i">>)

InitStrides ==
    /\ pc = "args"
    /\ IsStrideArgs(largs)
    /\ loop = <<>>
    /\ dims = 0
    /\ i = 0
    /\ elem = <<>>
    /\ sf_error = <<>>
    /\ args = BaseAddresses(largs)
    /\ steps \in [ArgSlots(largs) -> StrideSamples]
    /\ cursors = <<>>
    /\ stored = <<>>
    /\ check_fpe = 0
    /\ GenIdle
    /\ IterIdle
    /\ ScalarIdle
    /\ MainIdle
    /\ ParseIdle

SpecStrides == InitStrides /\ [][NextLoop]_vars


(***************************************************************************)
(* FusedFunc: the scalar function of a registry line.                      *)
(***************************************************************************)
\* The header names of the model for which header.endswith("h").
CHeaders == {"cephes.h"}

\* The codes in the order Python sorts one-character strings.
AsciiOrder == <<"D", "F", "G", "d", "f", "g", "i", "l">>

\* codes = unique(...); codes.sort(); ''.join(codes)
SortedUnique(codes) == SelectSeq(AsciiOrder, LAMBDA c : Contains(codes, c))

\* generate_fused_type(codes)[0]: the name of the fused type of a code string.
generate_fused_type(codes) == codes \o <<"_number_t">>

\* FusedFunc._get_codes: per position, the codes of the signatures' first
\* (int-to-long) variants.
get_codes(sigs) ==
    LET first(k) == iter_variants(sigs[k].inarg, SigOutp(sigs[k]))[1]
        in_num == Len(sigs[1].inarg)
        out_num == Len(SigOutp(sigs[1]))
    IN  IF \E k \in DOMAIN sigs : Len(first(k)[1]) < in_num \/ Len(first(k)[2]) < out_num
        THEN [err |-> "IndexError: string index out of range"]
        ELSE [err |-> NoError,
              incodes |-> [n \in 1..in_num |->
                              SortedUnique([k \in DOMAIN sigs |-> first(k)[1][n]])],
              outcodes |-> [n \in 1..out_num |->
                               SortedUnique([k \in DOMAIN sigs |-> first(k)[2][n]])]]

\* FusedFunc._get_conditional: the clauses "<fused type> is <type of code>",
\* one for the first position of each fused type.
get_conditional(typcodes, codes) ==
    LET tested == {n \in DOMAIN typcodes \cap DOMAIN codes :
                      /\ Len(typcodes[n]) > 1
                      /\ \A m \in 1..(n - 1) : typcodes[m] # typcodes[n]}
    IN  {[typ |-> generate_fused_type(typcodes[n]), code |-> codes[n]] : n \in tested}

\* FusedFunc._get_incallvars: the expression passed for each input parameter.
get_incallvars(incodes, c) ==
    [n \in DOMAIN incodes |->
        [var |-> n,
         wrap |-> IF c /\ incodes[n] = "D"
                  THEN "npy_cdouble_from_double_complex" ELSE "none"]]

\* FusedFunc._get_common, with the call of the specialized function that
\* each _generate_* method builds from it.
get_common(self_incodes, signum, sig) ==
    LET incodes == Replace(sig.inarg, "i", "l")
        outcodes == Replace(sig.outarg, "i", "l")
        stripped == StripIgnored(Replace(sig.ret, "i", "l"))
        retcode == IF stripped = <<>> THEN <<"v">> ELSE stripped
        c == sig.header \in CHeaders
    IN  [func_name |-> sig.func_name,
         incodes |-> incodes,
         outcodes |-> outcodes,
         retcode |-> retcode,
         c |-> c,
         adverb |-> IF signum = 0 THEN "if" ELSE "elif",
         cond |-> get_conditional(self_incodes, incodes),
         callvars |-> get_incallvars(incodes, c),
         \* the parameter and return types the kernel is declared with
         \* (get_prototypes, get_declaration)
         proto_in |-> sig.inarg,
         proto_ret |-> RemoveStars(sig.ret)]

\* The test of FusedFunc.generate on a signature: which _generate_* method
\* it selects.
FusedShape(sig) ==
    LET outcodes == sig.outarg
        stripped == StripIgnored(sig.ret)
        retcode == IF stripped = <<>> THEN <<"v">> ELSE stripped
    IN  IF Len(outcodes) = 0 /\ retcode # <<"v">> THEN "return_and_no_outargs"
        ELSE IF Len(outcodes) > 0 /\ retcode = <<"v">> THEN "outargs_and_no_return"
        ELSE IF Len(outcodes) > 0 THEN "outargs_and_return"
        ELSE "invalid"

\* The method applied to signature k, were it chosen by that signature.
MethodFor_OwnSignature(sigs, k) == FusedShape(sigs[k])

\* The method whose loop emits the statement of signature k: the one that
\* generate selected, from self.signatures[0].
MethodFor(sigs, k) == FusedShape(sigs[1])

\* FusedFunc._get_outcallvars: the variables y<n> passed for the output
\* parameters of a kernel, the tail self.outvars[start:] paired with them.
get_outcallvars(outvars_num, outcodes) ==
    LET start == outvars_num - Len(outcodes)
        first == IF start >= 0 THEN start
                 ELSE IF outvars_num + start >= 0 THEN outvars_num + start ELSE 0
        tail == [n \in 1..(outvars_num - first) |-> first + n - 1]
    IN  SubSeq(tail, 1, IF Len(tail) < Len(outcodes) THEN Len(tail) ELSE Len(outcodes))

\* The statement a _generate_* method emits for one signature: "return
\* f(...)", "f(..., y...)" or "y0[0] = f(..., y...)".
Statement(method, outvars_num, b) ==
    CASE method = "return_and_no_outargs" ->
            [form |-> "return", outcallvars |-> <<>>]
      [] method = "outargs_and_no_return" ->
            [form |-> "call", outcallvars |-> get_outcallvars(outvars_num, b.outcodes)]
      [] OTHER ->
            [form |-> "assign y0[0]",
             outcallvars |-> get_outcallvars(outvars_num, b.outcodes)]

\* FusedFunc.generate: the shape of the function, its branches in the order
\* of the signatures, the specializations it lists and whether a trailing
\* else sets the sentinels.
FusedGenerate(sigs) ==
    LET codes == get_codes(sigs)
        shape == FusedShape(sigs[1])
        branches == [k \in DOMAIN sigs |-> get_common(codes.incodes, k - 1, sigs[k])]
        spec(b) == IF shape = "return_and_no_outargs"
                   THEN [inp |-> b.incodes, outp |-> <<>>, ret |-> b.retcode]
                   ELSE IF shape = "outargs_and_no_return" /\ Len(b.outcodes) = 1
                   THEN [inp |-> b.incodes, outp |-> <<>>, ret |-> b.outcodes]
                   ELSE IF shape = "outargs_and_no_return"
                   THEN [inp |-> b.incodes, outp |-> b.outcodes, ret |-> <<"v">>]
                   ELSE [inp |-> b.incodes, outp |-> b.outcodes \o b.retcode,
                         ret |-> <<"v">>]
    IN  IF codes.err # NoError THEN [err |-> codes.err]
        ELSE IF shape = "invalid" THEN [err |-> "ValueError: Invalid signature"]
        ELSE [err |-> NoError,
              shape |-> shape,
              incodes |-> codes.incodes,
              outcodes |-> codes.outcodes,
              branches |-> branches,
              stmts |-> [k \in DOMAIN branches |->
                            Statement(MethodFor(sigs, k), Len(codes.outcodes),
                                      branches[k])],
              returns |-> IF shape = "return_and_no_outargs"
                             \/ (shape = "outargs_and_no_return"
                                    /\ Len(codes.outcodes) = 1)
                          THEN "value" ELSE "void",
              specs |-> [k \in DOMAIN branches |-> spec(branches[k])],
              has_else |-> Len(sigs) > 1]

(***************************************************************************)
(* A test point handed to the ufunc and to the scalar function             *)
(* (test_cython_api: pyfunc and cyfunc called on the point pt).            *)
(***************************************************************************)
\* Index of the first element of the sequence q that satisfies P, 0 if none.
FirstIndex(q, P(_)) ==
    IF \E k \in DOMAIN q : P(q[k])
    THEN CHOOSE k \in DOMAIN q : P(q[k]) /\ \A m \in 1..(k - 1) : ~P(q[m])
    ELSE 0

\* The scalar function has a specialization for arguments of these codes:
\* each position offers the code, and positions of one fused type agree.
Admissible(f, codes) ==
    /\ Len(codes) = Len(f.incodes)
    /\ \A n \in DOMAIN codes : Contains(f.incodes[n], codes[n])
    /\ \A n, m \in DOMAIN codes :
          Len(f.incodes[n]) > 1 /\ f.incodes[n] = f.incodes[m] => codes[n] = codes[m]

\* The branch of the if/elif ladder taken by the specialization for codes.
SelectBranch(f, codes) ==
    LET typeof(typ) ==
            codes[CHOOSE n \in DOMAIN codes :
                      /\ generate_fused_type(f.incodes[n]) = typ
                      /\ \A m \in 1..(n - 1) : generate_fused_type(f.incodes[m]) # typ]
        taken(b) == \A cl \in b.cond : typeof(cl.typ) = cl.code
    IN  FirstIndex(f.branches, taken)

\* The code of the return type in the specialization for codes: the code of
\* a plain type, or the code the arguments give to the fused type.
ReturnCode(f, codes) ==
    IF Len(f.outcodes[1]) = 1 THEN f.outcodes[1][1]
    ELSE codes[CHOOSE n \in DOMAIN codes : f.incodes[n] = f.outcodes[1]]

\* The return type is plain or the fused type of an argument, so that the
\* arguments determine it.
ReturnTypeBound(f) ==
    Len(f.outcodes[1]) = 1 \/ \E n \in DOMAIN f.incodes : f.incodes[n] = f.outcodes[1]

\* cyfunc on pt for a function of the return shape: the taken branch returns
\* the kernel's value, the arguments x0, x1, ... converted to the parameter
\* types of the kernel's declaration as C converts them; with no branch
\* taken the trailing else returns NAN_VALUE of the return code.
ScalarCall(f, codes, vals, kout, ub) ==
    IF SelectBranch(f, codes) = 0
    THEN [func_name |-> "",
          called |-> FALSE,
          kargs |-> <<>>,
          out |-> <<Sentinel(ReturnCode(f, codes))>>,
          errors |-> <<>>]
    ELSE
    LET b == f.branches[SelectBranch(f, codes)]
    IN  [func_name |-> b.func_name,
         called |-> TRUE,
         kargs |-> [n \in DOMAIN b.callvars |->
                       Cast(codes[n], b.proto_in[n], vals[b.callvars[n].var], ub)],
         out |-> <<Cast(b.proto_ret[1], b.retcode[1], kout[1], ub)>>,
         errors |-> <<>>]

\* The row the ufunc machinery resolves for arguments of exactly these types:
\* the first row of the table with these input types.
SelectRow(rows, codes) == FirstIndex(rows, LAMBDA r : r.inp = codes)

\* pyfunc on pt: the loop of the resolved row runs over the one element.
ArrayCall(rows, loops, codes, vals, kout, ub) ==
    LET row == rows[SelectRow(rows, codes)]
        lp == CHOOSE l \in loops : l.name = row.loop_name
        el == LoopBody(lp, LoopData.func_name, vals, kout, ub)
    IN  [func_name |-> row.func_name,
         called |-> el.called,
         kargs |-> el.kargs,
         out |-> el.op,
         errors |-> el.errors]

\* The codes and the lines of the scalar functions of the model: kernels
\* returning a double, or a complex for a complex argument.
ScalarCodes == {"i", "l", "d", "D"}
\* Input strings of the lines: an order or an integer argument first, as in
\* "id" and "ld", and a real or complex argument second, as in "dD".
ScalarPool ==
    {<<a>> : a \in {"i", "l", "d"}}
        \cup {<<a, b>> : a \in {"i", "l", "d"}, b \in {"l", "d", "D"}}

IsScalarGroup(sigs, n) ==
    \E g \in [1..n -> ScalarPool] : sigs = [k \in 1..n |-> MkSig(k, "return", g[k])]

InitScalar ==
    /\ pc = "parsed"
    /\ \E n \in 1..MaxSigs : IsScalarGroup(signatures, n)
    /\ variants = <<>>
    /\ all_loops = {}
    /\ inarg_num = None
    /\ outarg_num = None
    /\ error = NoError
    /\ IterIdle
    /\ LoopIdle
    /\ ScalarIdle
    /\ MainIdle
    /\ ParseIdle

\* generate_fused_funcs: func.generate() for the line, after generate_ufuncs.
FusedFuncGenerate ==
    /\ pc = "table"
    /\ fused' = FusedGenerate(signatures)
    /\ pc' = IF fused'.err = NoError THEN "fused" ELSE "failed"
    /\ UNCHANGED <<genvars, itervars, loopvars, pt, pyres, cyres, mainvars, parsevars>>

\* One pass of the inner loop of test_cython_api's check, for any point of
\* the types of a specialization.
CheckPoint ==
    /\ pc = "fused"
    /\ fused.shape = "return_and_no_outargs"
    /\ \E s \in DOMAIN fused.specs :
          LET typecodes == fused.specs[s].inp
          IN  /\ Admissible(fused, typecodes)
              /\ SelectRow(variants, typecodes) # 0
              /\ \E vals \in SampleTuples(typecodes),
                    kout \in SampleTuples(fused.branches[s].proto_ret),
                    ub \in UBOutcomes :
                    /\ pt' = [typecodes |-> typecodes, vals |-> vals]
                    /\ pyres' = ArrayCall(variants, all_loops, typecodes, vals, kout, ub)
                    /\ cyres' = ScalarCall(fused, typecodes, vals, kout, ub)
    /\ pc' = "checked"
    /\ UNCHANGED <<genvars, itervars, loopvars, fused, mainvars, parsevars>>

\* The specializations of the scalar function: the tuples of one code per
\* position that it admits.
Specializations(f) ==
    {codes \in [DOMAIN f.incodes -> ScalarCodes] : Admissible(f, codes)}

\* A call of the scalar function from Cython code, in any specialization.
CallScalar ==
    /\ pc = "fused"
    /\ fused.shape = "return_and_no_outargs"
    /\ ReturnTypeBound(fused)
    /\ \E codes \in Specializations(fused) :
          LET k == SelectBranch(fused, codes)
              rets == IF k = 0 THEN <<"d">> ELSE fused.branches[k].proto_ret
          IN  \E vals \in SampleTuples(codes), kout \in SampleTuples(rets),
                 ub \in UBOutcomes :
                 /\ pt' = [typecodes |-> codes, vals |-> vals]
                 /\ cyres' = ScalarCall(fused, codes, vals, kout, ub)
    /\ pc' = "called"
    /\ UNCHANGED <<genvars, itervars, loopvars, fused, pyres, mainvars, parsevars>>

NextScalar ==
    \/ GetSignaturesAndLoops
    \/ GetSignaturesAndLoopsFails
    \/ FusedFuncGenerate
    \/ CheckPoint
    \/ CallScalar

SpecScalar == InitScalar /\ [][NextScalar]_vars

(***************************************************************************)
(* The scalar functions of lines whose signatures differ in call shape.    *)
(***************************************************************************)
\* sigs is a line of n kernels, each of any of the shapes "in->X",
\* "in*X->*i", "in*Xd->*i", "in*X->i" and "in->*i", of one input.
IsShapeGroup(sigs, n) ==
    \E kinds \in [1..n -> ShapeKinds \cup {"outarg2", "both", "neither"}] :
        \E g \in [1..n -> {<<"d">>, <<"D">>, <<"i">>}] :
            sigs = [k \in 1..n |-> MkSig(k, kinds[k], g[k])]

InitShapes ==
    /\ pc = "parsed"
    /\ \E n \in 1..MaxSigs : IsShapeGroup(signatures, n)
    /\ variants = <<>>
    /\ all_loops = {}
    /\ inarg_num = None
    /\ outarg_num = None
    /\ error = NoError
    /\ IterIdle
    /\ LoopIdle
    /\ ScalarIdle
    /\ MainIdle
    /\ ParseIdle

NextShapes ==
    \/ GetSignaturesAndLoops
    \/ GetSignaturesAndLoopsFails
    \/ FusedFuncGenerate

SpecShapes == InitShapes /\ [][NextShapes]_vars

(***************************************************************************)
(* The registry text FUNCS of a whole run, and Func.parse_all.             *)
(***************************************************************************)
\* Largest number of lines in the registry.
MaxLines == 2

\* The text of a kernel clause, "func: inarg*outarg->ret" with the star
\* or "func: inarg->ret" without, as its characters; a run of letters of a
\* name is one of them and so is the arrow.  The texts hold no blanks.
Clause(func, inarg, star, outarg, ret) ==
    func \o <<":">> \o inarg \o (IF star THEN <<"*">> \o outarg ELSE <<>>)
         \o <<"->">> \o ret

\* The clauses the sample lines are made of; Alpha is a kernel that has the
\* name of the line it stands in, Kb and Ku are two kernels whose names
\* differ in brackets only.
Clauses ==
    [A |-> Clause(<<"kernelA">>, <<"d">>, FALSE, <<>>, <<"d">>),
     B |-> Clause(<<"kernelB">>, <<"d">>, TRUE, <<"d", "d">>, <<"*", "i">>),
     C |-> Clause(<<"kernelC">>, <<"d">>, TRUE, <<>>, <<"*", "i">>),
     D |-> Clause(<<"kernelD">>, <<"d", "d">>, FALSE, <<>>, <<"d">>),
     Kb |-> Clause(<<"k", "[", "d", "]">>, <<"D">>, FALSE, <<>>, <<"D">>),
     Ku |-> Clause(<<"k", "_", "d", "_">>, <<"D">>, FALSE, <<>>, <<"D">>),
     Alpha |-> Clause(<<"alpha">>, <<"i">>, FALSE, <<>>, <<"d">>)]

\* The character class [fdgFDGil] of the two patterns.
PatternCodes == {"f", "d", "g", "F", "D", "G", "i", "l"}

\* The position behind the longest run of codes of q that starts at k.
RunEnd(q, k) ==
    CHOOSE m \in k..(Len(q) + 1) :
        /\ \A n \in k..(m - 1) : q[n] \in PatternCodes
        /\ m <= Len(q) => q[m] \notin PatternCodes

\* The character of q at position k, "" behind its end.
CharAt(q, k) == IF k \in DOMAIN q THEN q[k] ELSE ""

\* ret.count('*')
CountStars(ret) == Cardinality({k \in DOMAIN ret : ret[k] = "*"})

\* Func._parse_signature: the first pattern (with the star between inputs
\* and outputs), then the second; the name is what stands before the last
\* colon, which may be nothing.
parse_signature(name, sig) ==
    LET colon == IF Contains(sig, ":")
                 THEN CHOOSE k \in DOMAIN sig :
                         sig[k] = ":" /\ \A m \in (k + 1)..Len(sig) : sig[m] # ":"
                 ELSE 0
        func == SubSeq(sig, 1, colon - 1)
        rest == SubSeq(sig, colon + 1, Len(sig))
        star == RunEnd(rest, 1)
        arrow == RunEnd(rest, star + 1)
        ret == SubSeq(rest, arrow + 1, Len(rest))
        first == /\ colon > 0
                 /\ CharAt(rest, star) = "*"
                 /\ CharAt(rest, arrow) = "->"
                 /\ \A k \in DOMAIN ret : ret[k] \in PatternCodes \cup {"*"}
        ret2 == SubSeq(rest, star + 1, Len(rest))
        second == /\ colon > 0
                  /\ CharAt(rest, star) = "->"
                  /\ Len(ret2) <= 1
                  /\ \A k \in DOMAIN ret2 : ret2[k] \in PatternCodes
        invalid == [err |-> "ValueError: Invalid signature", msg_name |-> name]
    IN  IF first
        THEN IF CountStars(ret) > 1 THEN invalid
             ELSE [err |-> NoError, func_name |-> func,
                   inarg |-> SubSeq(rest, 1, star - 1),
                   outarg |-> SubSeq(rest, star + 1, arrow - 1),
                   ret |-> ret]
        ELSE IF second
        THEN [err |-> NoError, func_name |-> func,
              inarg |-> SubSeq(rest, 1, star - 1), outarg |-> <<>>, ret |-> ret2]
        ELSE invalid

\* What stands after the name in the lines of the model, in the order of
\* their text:
\*   alpha: i->d -- cephes.h
\*   kernelA: d->d -- cephes.h
\*   kernelA: d->d -- cephes.h, _faddeeva.h++
\*   kernelA: d->d, k[d]: D->D -- cephes.h, _faddeeva.h++
\*   kernelA: d->d, k_d_: D->D -- cephes.h, _faddeeva.h++
\*   kernelA: d->d, kernelB: d*dd->*i -- cephes.h
\*   kernelA: d->d, kernelD: dd->d -- cephes.h
\*   kernelB: d*dd->*i, kernelA: d->d -- cephes.h
\*   kernelC: d*->*i -- cephes.h
LineBodies ==
    << [sigs |-> <<Clauses.Alpha>>, headers |-> <<"cephes.h">>],
       [sigs |-> <<Clauses.A>>, headers |-> <<"cephes.h">>],
       [sigs |-> <<Clauses.A>>, headers |-> <<"cephes.h", "_faddeeva.h++">>],
       [sigs |-> <<Clauses.A, Clauses.Kb>>, headers |-> <<"cephes.h", "_faddeeva.h++">>],
       [sigs |-> <<Clauses.A, Clauses.Ku>>, headers |-> <<"cephes.h", "_faddeeva.h++">>],
       [sigs |-> <<Clauses.A, Clauses.B>>, headers |-> <<"cephes.h">>],
       [sigs |-> <<Clauses.A, Clauses.D>>, headers |-> <<"cephes.h">>],
       [sigs |-> <<Clauses.B, Clauses.A>>, headers |-> <<"cephes.h">>],
       [sigs |-> <<Clauses.C>>, headers |-> <<"cephes.h">> ] >>

\* The names of the lines, in the order of their text ('_' sorts before 'a').
LineNames == << <<"_", "beta">>, <<"alpha">>, <<"gamma">> >>

\* A line: leading blanks or none, a name and a body.  Every body stands
\* under the name alpha; "kernelA: d->d" and the last under _beta;
\* "kernelA: d->d" under gamma, which alone may be indented.
Lines ==
    {l \in [indent : BOOLEAN, name : DOMAIN LineNames, body : DOMAIN LineBodies] :
        \/ l.name = 1 /\ l.body \in {2, Len(LineBodies)} /\ ~l.indent
        \/ l.name = 2 /\ ~l.indent
        \/ l.name = 3 /\ l.body = 2}

\* No line taken to stand before another.
LineLess_Never(a, b) == FALSE

\* The order of Python strings on the text of two lines: a blank sorts before
\* every character of a name.
LineLess(a, b) ==
    \/ a.indent /\ ~b.indent
    \/ a.indent = b.indent /\ a.name < b.name
    \/ a.indent = b.indent /\ a.name = b.name /\ a.body < b.body

\* list.sort(), sorted(): the stable sort of q, each element placed behind
\* the smaller ones and behind the equal ones that stood before it.
\* less holds the pairs <<j, k>> of positions with q[j] < q[k].
SortedBy(q, less) ==
    LET pos(k) == 1 + Cardinality({j \in DOMAIN q :
                                      \/ <<j, k>> \in less
                                      \/ <<k, j>> \notin less /\ j < k})
    IN  [n \in DOMAIN q |-> q[CHOOSE k \in DOMAIN q : pos(k) = n]]

RECURSIVE FirstInvalid(_, _)
\* The first clause of sigs[k..] that _parse_signature rejects, 0 if none.
FirstInvalid(sigs, k) ==
    IF k > Len(sigs) THEN 0
    ELSE IF sigs[k].err # NoError THEN k
    ELSE FirstInvalid(sigs, k + 1)

\* The end of Func._parse_signatures: each clause with its header.
WithHeaders(sigs, headers) ==
    IF FirstInvalid(sigs, 1) # 0 THEN sigs[FirstInvalid(sigs, 1)]
    ELSE [err |-> NoError,
          signatures |-> [k \in DOMAIN sigs |->
                             [func_name |-> sigs[k].func_name,
                              inarg |-> sigs[k].inarg,
                              outarg |-> sigs[k].outarg,
                              ret |-> sigs[k].ret,
                              header |-> headers[k]]]]

\* _parse_signatures with the first header given to every signature.
parse_signatures_FirstHeader(name, sigs, headers_str) ==
    IF Len(headers_str) # 1 /\ Len(headers_str) # Len(sigs)
    THEN [err |-> "ValueError: Number of headers and signatures doesn't match",
          msg_name |-> name]
    ELSE WithHeaders([k \in DOMAIN sigs |-> parse_signature(name, sigs[k])],
                     [k \in DOMAIN sigs |-> headers_str[1]])

\* Func._parse_signatures on the clauses and the header names of a line,
\* both already split at the commas.
parse_signatures(name, sigs, headers_str) ==
    LET headers == IF Len(headers_str) = 1
                   THEN [k \in DOMAIN sigs |-> headers_str[1]]
                   ELSE headers_str
    IN  IF Len(headers) # Len(sigs)
        THEN [err |-> "ValueError: Number of headers and signatures doesn't match",
              \* the message is "%s: Number of headers ..." % (self.name,)
              msg_name |-> name]
        ELSE WithHeaders([k \in DOMAIN sigs |-> parse_signature(name, sigs[k])], headers)

\* Func.__init__ for a line.
FuncInit(line) ==
    LET parsed == parse_signatures(LineNames[line.name], LineBodies[line.body].sigs,
                                   LineBodies[line.body].headers)
    IN  IF parsed.err # NoError THEN [err |-> parsed.err]
        ELSE [err |-> NoError,
              name |-> LineNames[line.name],
              signatures |-> parsed.signatures,
              function_name_overrides |-> <<>>]

\* Ufunc.__init__ for a line: Func.__init__; every name has a docstring.
UfuncInit(line) == FuncInit(line)

\* FusedFunc.__init__ for a line: Func.__init__, then _get_codes.
FusedFuncInit(line) ==
    LET coded(func, codes) == IF codes.err # NoError THEN [err |-> codes.err] ELSE func
        init(func) == IF func.err # NoError THEN func
                      ELSE coded(func, get_codes(func.signatures))
    IN  init(FuncInit(line))

RECURSIVE FirstError(_, _)
\* The exception of the first object of q that failed to construct.
FirstError(q, k) ==
    IF k > Len(q) THEN NoError
    ELSE IF q[k].err # NoError THEN q[k].err
    ELSE FirstError(q, k + 1)

\* cls.parse_all(FUNCS): the lines are sorted, then one object is made of
\* each; the first that fails ends the call.
\* cls is the class the method is called on.
parse_all(cls, text) ==
    LET made(objs) == [err |-> FirstError(objs, 1), objs |-> objs]
        each(lines) == made([k \in DOMAIN lines |->
                                IF cls = "FusedFunc" THEN FusedFuncInit(lines[k])
                                ELSE UfuncInit(lines[k])])
    IN  each(SortedBy(text, {jk \in (DOMAIN text) \X (DOMAIN text) :
                                LineLess(text[jk[1]], text[jk[2]])}))

(***************************************************************************)
(* Func._parse_signatures and Func._parse_signature on their own.          *)
(***************************************************************************)
\* The header names of the model.
HeaderNames == {"cephes.h", "_faddeeva.h++"}

\* The clauses of the lists handed to _parse_signatures; the last has two
\* stars in its return part.
ListedClauses ==
    {Clauses.A, Clauses.D, Clause(<<"kernelB">>, <<"d">>, TRUE, <<"d">>, <<"*", "*">>)}

InitParse ==
    /\ pc = "signatures"
    /\ \E k \in DOMAIN LineNames : self_name = LineNames[k]
    /\ \E n \in 0..MaxSigs : arg_sigs \in [1..n -> ListedClauses]
    /\ \E h \in 0..(MaxSigs + 1) : arg_headers \in [1..h -> HeaderNames]
    /\ returned = <<>>
    /\ GenIdle
    /\ IterIdle
    /\ LoopIdle
    /\ ScalarIdle
    /\ MainIdle

\* self.signatures = self._parse_signatures(signatures, headers)
ParseSignatures ==
    /\ pc = "signatures"
    /\ returned' = parse_signatures(self_name, arg_sigs, arg_headers)
    /\ pc' = "parsed"
    /\ UNCHANGED <<genvars, itervars, loopvars, scalarvars, mainvars,
                   self_name, arg_sigs, arg_headers>>

NextParse == ParseSignatures

SpecParse == InitParse /\ [][NextParse]_vars

\* The longest return part of the clauses of the model.
MaxRet == 3

\* The characters of the return parts, and a character outside the codes.
RetChars == {"d", "*"}
OtherChar == "x"

\* The clauses handed to _parse_signature: a name or none, a colon or none,
\* the inputs, the star and the outputs or neither, an arrow or none and a
\* return part.
ClauseTexts ==
    {func \o colon \o inarg \o outpart \o arrow \o ret :
        func \in {<<>>, <<"k">>},
        colon \in {<<>>, <<":">>},
        inarg \in {<<>>, <<"d">>, <<OtherChar>>},
        outpart \in {<<>>, <<"*">>, <<"*", "d">>},
        arrow \in {<<>>, <<"->">>},
        ret \in UNION {[1..n -> RetChars] : n \in 0..MaxRet}}

InitClause ==
    /\ pc = "signature"
    /\ \E k \in DOMAIN LineNames : self_name = LineNames[k]
    /\ \E sig \in ClauseTexts : arg_sigs = <<sig>>
    /\ arg_headers = <<>>
    /\ returned = <<>>
    /\ GenIdle
    /\ IterIdle
    /\ LoopIdle
    /\ ScalarIdle
    /\ MainIdle

\* self._parse_signature(x)
ParseSignature ==
    /\ pc = "signature"
    /\ returned' = parse_signature(self_name, arg_sigs[1])
    /\ pc' = "matched"
    /\ UNCHANGED <<genvars, itervars, loopvars, scalarvars, mainvars,
                   self_name, arg_sigs, arg_headers>>

NextClause == ParseSignature

SpecClause == InitClause /\ [][NextClause]_vars

(***************************************************************************)
(* generate_ufuncs.                                                        *)
(***************************************************************************)
\* Characters of the names of loops, in the order of their codes.
AsciiChars == <<"(", "A", "D", "F", "G", "_", "d", "f", "g", "i", "l", "s", "v">>

CharRank(c) == CHOOSE k \in DOMAIN AsciiChars : AsciiChars[k] = c

\* The text of a loop from its name on: "_%s_%s_%s_As_%s_%s(".
LoopText(name) ==
    <<"_">> \o name[2] \o <<"_">> \o name[3] \o <<"_">> \o name[4]
        \o <<"_", "A", "s", "_">> \o name[6] \o <<"_">> \o name[7] \o <<"(">>

\* The order of Python strings on the texts of two loops.
LoopLess(a, b) ==
    ListLess([k \in DOMAIN LoopText(a.name) |-> CharRank(LoopText(a.name)[k])],
             [k \in DOMAIN LoopText(b.name) |-> CharRank(LoopText(b.name)[k])], 1)

\* c_name.replace('[', '_').replace(']', '_').replace(' ', '_')
var_name(c_name) == Replace(Replace(Replace(c_name, "[", "_"), "]", "_"), " ", "_")

\* Func.cython_func_name
cython_func_name(overrides, c_name, specialized, prefix, override) ==
    LET hit == override /\ c_name \in DOMAIN overrides
        name == IF hit THEN overrides[c_name] ELSE c_name
        pre == IF hit THEN <<>> ELSE prefix
        open == IF name # <<>> /\ name[Len(name)] = "]" /\ Contains(name, "[")
                THEN CHOOSE k \in DOMAIN name :
                        name[k] = "[" /\ \A m \in 1..(k - 1) : name[m] # "["
                ELSE Len(name) + 1
        c_base_name == SubSeq(name, 1, open - 1)
        fused_part == SubSeq(name, open, Len(name))
    IN  IF specialized THEN pre \o c_base_name \o Replace(fused_part, " ", "_")
        ELSE pre \o c_base_name

\* Func.get_prototypes: (func_name, prototype, header) of each signature.
get_prototypes(func) ==
    [k \in DOMAIN func.signatures |->
        [c_name |-> func.signatures[k].func_name,
         proto |-> [ret |-> RemoveStars(func.signatures[k].ret),
                    inarg |-> func.signatures[k].inarg,
                    outarg |-> func.signatures[k].outarg],
         header |-> func.signatures[k].header]]

\* header.endswith('++')
IsCxxHeader(header) == header \in {"_faddeeva.h++"}

\* header[:-2]
StripCxx(header) == IF header = "_faddeeva.h++" THEN "_faddeeva.h" ELSE header

\* get_declaration for a function from a header file: the lines for the
\* Cython file and for the C header.
get_declaration(func, c_name, proto, header, proto_h_filename) ==
    [defs |-> << [line |-> "cdef extern from", file |-> proto_h_filename],
                 [line |-> "cdef",
                  name |-> cython_func_name(func.function_name_overrides, c_name,
                                            FALSE, <<"_func_">>, TRUE),
                  c_name |-> c_name, proto |-> proto] >>,
     defs_h |-> << [line |-> "#include", header |-> header],
                   [line |-> "prototype", c_name |-> c_name, proto |-> proto] >>,
     var_name |-> var_name(c_name)]

RECURSIVE unique(_)
\* unique(lst): the first occurrence of each entry, in order.
unique(lst) ==
    IF lst = <<>> THEN <<>>
    ELSE LET init == unique(SubSeq(lst, 1, Len(lst) - 1))
         IN  IF Contains(init, lst[Len(lst)]) THEN init ELSE Append(init, lst[Len(lst)])

\* The name a foreign-linked kernel is exported under.
ExportName(var) == <<"scipy.special._ufuncs_cxx._export_">> \o var

\* One pass of the loop of generate_ufuncs over the prototypes of a ufunc:
\* the kernel f with its declaration d.
DeclareKernel(st, f, d) ==
    IF IsCxxHeader(f.header)
    THEN [st EXCEPT
            !.cxx_defs = @ \o d.defs \o
                << [line |-> "cdef void *", name |-> <<"_export_">> \o d.var_name,
                    value |-> cython_func_name(st.ufunc.function_name_overrides,
                                               f.c_name, TRUE, <<"_func_">>, FALSE)] >>,
            !.cxx_defs_h = @ \o d.defs_h,
            !.cxx_pxd_defs = Append(@, [line |-> "cdef void *",
                                        name |-> <<"_export_">> \o d.var_name]),
            !.ufunc.function_name_overrides = (f.c_name :> ExportName(d.var_name)) @@ @]
    ELSE [st EXCEPT !.defs = @ \o d.defs, !.defs_h = @ \o d.defs_h]

RECURSIVE DeclareKernels(_, _, _)
\* The loop of generate_ufuncs over the prototypes cfuncs[k..] of one ufunc.
DeclareKernels(st, cfuncs, k) ==
    IF k > Len(cfuncs) THEN st
    ELSE DeclareKernels(
            DeclareKernel(st, cfuncs[k],
               get_declaration(st.ufunc, cfuncs[k].c_name, cfuncs[k].proto,
                               StripCxx(cfuncs[k].header),
                               IF IsCxxHeader(cfuncs[k].header)
                               THEN "_ufuncs_cxx_defs.h" ELSE "_ufuncs_defs.h")),
            cfuncs, k + 1)

\* The name of the kernel of the row in place of the name of the ufunc.
NameTag_OfKernel(ufunc, variant) == variant.func_name

\* ufunc_<name>_ptr[2*j+1] = <void*>(<char*>"<name>"): the name the loop of
\* row j reports errors under.
NameTag(ufunc, variant) == ufunc.name

\* The table Ufunc.generate emits from the variants tab of the ufunc.
UfuncTable(ufunc, loops, tab) ==
    IF tab.error # NoError THEN [err |-> tab.error, all_loops |-> loops]
    ELSE [err |-> NoError,
          all_loops |-> tab.all_loops,
          toplevel |->
             [name |-> ufunc.name,
              loops |-> [j \in DOMAIN tab.variants |-> tab.variants[j].loop_name],
              types |-> [j \in DOMAIN tab.variants |->
                            tab.variants[j].inp \o tab.variants[j].outp],
              \* ufunc_<name>_ptr[2*j] and ufunc_<name>_ptr[2*j+1]
              ptr |-> [j \in DOMAIN tab.variants |->
                          << cython_func_name(ufunc.function_name_overrides,
                                              tab.variants[j].func_name,
                                              TRUE, <<"_func_">>, TRUE),
                             NameTag(ufunc, tab.variants[j]) >>],
              nin |-> tab.inarg_num,
              nout |-> tab.outarg_num]]

\* Ufunc.generate: the table of the ufunc, or the exception.
UfuncGenerate(ufunc, loops) ==
    UfuncTable(ufunc, loops, get_signatures_and_loops(ufunc.signatures, loops))

\* ufuncs.sort(key=lambda u: u.name)
NameLess(a, b) ==
    (CHOOSE k \in DOMAIN LineNames : LineNames[k] = a.name)
        < (CHOOSE k \in DOMAIN LineNames : LineNames[k] = b.name)

\* sorted(S): less holds the pairs <<x, y>> of elements of S with x < y.
SetToSeq(S, less) ==
    [n \in 1..Cardinality(S) |->
        CHOOSE x \in S : Cardinality({y \in S : <<y, x>> \in less}) = n - 1]

\* t = ufunc.generate(all_loops); toplevel += t
AddToplevel(st, t) ==
    IF t.err # NoError THEN [st EXCEPT !.err = t.err]
    ELSE [st EXCEPT !.all_loops = t.all_loops, !.toplevel = Append(@, t.toplevel)]

\* One pass of the loop of generate_ufuncs, the kernels of the ufunc declared.
GenerateOne(st) == AddToplevel(st, UfuncGenerate(st.ufunc, st.all_loops))

RECURSIVE GenerateEach(_, _, _)
\* The loop of generate_ufuncs over the ufuncs sorted[k..].
GenerateEach(st, sorted, k) ==
    IF k > Len(sorted) \/ st.err # NoError THEN st
    ELSE GenerateEach(GenerateOne(DeclareKernels([st EXCEPT !.ufunc = sorted[k]],
                                                 get_prototypes(sorted[k]), 1)),
                      sorted, k + 1)

\* The five files generate_ufuncs writes at its end.
UfuncFiles(st, loops) ==
    ("_ufuncs.pyx" :> [loops |-> loops,
                       defs |-> st.defs,
                       toplevel |-> st.toplevel])
    @@ ("_ufuncs_defs.h" :> unique(st.defs_h))
    @@ ("_ufuncs_cxx_defs.h" :> unique(st.cxx_defs_h))
    @@ ("_ufuncs_cxx.pyx" :> st.cxx_defs)
    @@ ("_ufuncs_cxx.pxd" :> st.cxx_pxd_defs)

\* The outcome of a generator: the exception, or the files written.
Written(st, written) ==
    IF st.err # NoError THEN [err |-> st.err, files |-> <<>>]
    ELSE [err |-> NoError, files |-> written]

\* The end of generate_ufuncs, from the locals st left by its loop.
WriteUfuncs(st) ==
    Written(st, UfuncFiles(st, SetToSeq(st.all_loops,
                                        {xy \in st.all_loops \X st.all_loops :
                                            LoopLess(xy[1], xy[2])})))

\* generate_ufuncs: the exception, or the five files it writes.
generate_ufuncs(ufunc_list) ==
    WriteUfuncs(GenerateEach(
        [err |-> NoError, ufunc |-> <<>>, all_loops |-> {}, toplevel |-> <<>>,
         defs |-> <<>>, defs_h |-> <<>>, cxx_defs |-> <<>>, cxx_defs_h |-> <<>>,
         cxx_pxd_defs |-> << [line |-> "cdef int _set_errprint(int flag) nogil"] >>],
        SortedBy(ufunc_list, {jk \in (DOMAIN ufunc_list) \X (DOMAIN ufunc_list) :
                                 NameLess(ufunc_list[jk[1]], ufunc_list[jk[2]])}), 1))

(***************************************************************************)
(* generate_fused_funcs.                                                   *)
(***************************************************************************)
\* The name a branch of the scalar function calls its kernel by
\* (FusedFunc._get_common).
FusedCallName(sig) ==
    IF IsCxxHeader(sig.header)
    THEN <<"scipy.special._ufuncs_cxx._export_">> \o sig.func_name
    ELSE cython_func_name(<<>>, sig.func_name, TRUE, <<"_func_">>, TRUE)

\* FusedFunc._get_types(codes)[1]: the fused types of the positions.
get_types(codes) ==
    {generate_fused_type(codes[n]) : n \in {m \in DOMAIN codes : Len(codes[m]) > 1}}

\* The order of Python strings on the names of fused types.
TypeLess(a, b) ==
    ListLess([k \in DOMAIN a |-> IF k = Len(a) THEN CharRank("_") ELSE CharRank(a[k])],
             [k \in DOMAIN b |-> IF k = Len(b) THEN CharRank("_") ELSE CharRank(b[k])], 1)

\* The loop of generate_fused_funcs over the prototypes cfuncs[k..] of one
\* function: the declarations of its kernels from C headers.
RECURSIVE DeclareFused(_, _, _, _)
DeclareFused(defs, func, cfuncs, k) ==
    IF k > Len(cfuncs) THEN defs
    ELSE IF IsCxxHeader(cfuncs[k].header) THEN DeclareFused(defs, func, cfuncs, k + 1)
    ELSE DeclareFused(defs \o get_declaration(func, cfuncs[k].c_name, cfuncs[k].proto,
                                              cfuncs[k].header, "_ufuncs_defs.h").defs,
                      func, cfuncs, k + 1)

\* One pass of the loop of generate_fused_funcs: the function func with
\* the outcome g of func.generate().
FusedOne(st, func, g) ==
    IF g.err # NoError THEN [st EXCEPT !.err = g.err]
    ELSE [st EXCEPT
            !.declarations = Append(@, [name |-> func.name,
                                        incodes |-> g.incodes,
                                        outcodes |-> g.outcodes]),
            !.sources = Append(@, [name |-> func.name,
                                   shape |-> g.shape,
                                   calls |-> [j \in DOMAIN func.signatures |->
                                                FusedCallName(func.signatures[j])],
                                   conds |-> [j \in DOMAIN g.branches |->
                                                g.branches[j].cond],
                                   has_else |-> g.has_else]),
            !.fused_types = @ \cup get_types(g.incodes) \cup get_types(g.outcodes),
            !.defs = DeclareFused(@, func, get_prototypes(func), 1),
            !.params = Append(@, [pyfunc |-> func.name, cyfunc |-> func.name,
                                  incodes |-> [j \in DOMAIN g.specs |-> g.specs[j].inp]]),
            !.doc = Append(@, [name |-> func.name, specs |-> g.specs])]

RECURSIVE FusedEach(_, _, _)
\* The loop of generate_fused_funcs over the functions funcs[k..].
FusedEach(st, funcs, k) ==
    IF k > Len(funcs) \/ st.err # NoError THEN st
    ELSE IF funcs[k].name[1] = "_" THEN FusedEach(st, funcs, k + 1)
    ELSE FusedEach(FusedOne(st, funcs[k], FusedGenerate(funcs[k].signatures)),
                   funcs, k + 1)

\* The four files generate_fused_funcs writes at its end.
FusedFiles(st) ==
    ("cython_special.pxd" :>
        [fused_types |-> SetToSeq(st.fused_types,
                                  {xy \in st.fused_types \X st.fused_types :
                                      TypeLess(xy[1], xy[2])}),
         declarations |-> st.declarations])
    @@ ("cython_special.pyx" :> [doc |-> st.doc, defs |-> st.defs,
                                 sources |-> st.sources])
    @@ ("test_cython_special.py" :> st.params)
    @@ ("benchmarks/cython_special.py" :> <<>>)

\* The end of generate_fused_funcs, from the locals st left by its loop.
WriteFused(st) == Written(st, FusedFiles(st))

\* generate_fused_funcs: the exception, or the four files it writes.
generate_fused_funcs(funcs) ==
    WriteFused(FusedEach(
        [err |-> NoError, declarations |-> <<>>, sources |-> <<>>,
         fused_types |-> {}, defs |-> <<>>, params |-> <<>>, doc |-> <<>>],
        funcs, 1))

(***************************************************************************)
(* main(): the two parses and the two generators, in order.                *)
(***************************************************************************)
InitMain ==
    /\ pc = "main"
    /\ \E n \in 1..MaxLines : FUNCS \in [1..n -> Lines]
    /\ ufuncs = <<>>
    /\ fused_funcs = <<>>
    /\ files = <<>>
    /\ GenIdle
    /\ IterIdle
    /\ LoopIdle
    /\ ScalarIdle
    /\ ParseIdle

\* ufuncs = Ufunc.parse_all(FUNCS)
ParseUfuncs ==
    /\ pc = "main"
    /\ \E r \in {parse_all("Ufunc", FUNCS)} :
           /\ error' = r.err
           /\ ufuncs' = IF r.err = NoError THEN r.objs ELSE <<>>
           /\ pc' = IF r.err = NoError THEN "ufuncs_parsed" ELSE "failed"
    /\ UNCHANGED <<signatures, variants, all_loops, inarg_num, outarg_num,
                   itervars, loopvars, scalarvars, FUNCS, fused_funcs, files,
                   parsevars>>

\* generate_ufuncs("_ufuncs", "_ufuncs_cxx", ufuncs)
GenerateUfuncs ==
    /\ pc = "ufuncs_parsed"
    /\ \E r \in {generate_ufuncs(ufuncs)} :
           /\ error' = r.err
           /\ files' = r.files @@ files
           /\ pc' = IF r.err = NoError THEN "ufuncs_written" ELSE "failed"
    /\ UNCHANGED <<signatures, variants, all_loops, inarg_num, outarg_num,
                   itervars, loopvars, scalarvars, FUNCS, ufuncs, fused_funcs,
                   parsevars>>

\* fused_funcs = FusedFunc.parse_all(FUNCS)
ParseFused ==
    /\ pc = "ufuncs_written"
    /\ \E r \in {parse_all("FusedFunc", FUNCS)} :
           /\ error' = r.err
           /\ fused_funcs' = IF r.err = NoError THEN r.objs ELSE <<>>
           /\ pc' = IF r.err = NoError THEN "fused_parsed" ELSE "failed"
    /\ UNCHANGED <<signatures, variants, all_loops, inarg_num, outarg_num,
                   itervars, loopvars, scalarvars, FUNCS, ufuncs, files,
                   parsevars>>

\* generate_fused_funcs("cython_special", "_ufuncs", fused_funcs)
GenerateFusedFuncs ==
    /\ pc = "fused_parsed"
    /\ \E r \in {generate_fused_funcs(fused_funcs)} :
           /\ error' = r.err
           /\ files' = r.files @@ files
           /\ pc' = IF r.err = NoError THEN "done" ELSE "failed"
    /\ UNCHANGED <<signatures, variants, all_loops, inarg_num, outarg_num,
                   itervars, loopvars, scalarvars, FUNCS, ufuncs, fused_funcs,
                   parsevars>>

\* The loop of the table's row with this name, from the text of _ufuncs.pyx.
LoopNamed(name) ==
    CHOOSE l \in {files["_ufuncs.pyx"].loops[k] : k \in DOMAIN files["_ufuncs.pyx"].loops} :
        l.name = name

\* The built module at work: the runtime calls the loop of row j of a ufunc
\* on one element, with data = &ufunc_<name>_ptr[2*j]; the loop ends with
\* sf_error.check_fpe(func_name).
CallUfunc ==
    /\ pc = "done"
    /\ \E u \in DOMAIN files["_ufuncs.pyx"].toplevel :
       \E j \in DOMAIN files["_ufuncs.pyx"].toplevel[u].loops :
       \E lp \in {LoopNamed(files["_ufuncs.pyx"].toplevel[u].loops[j])} :
       \E ip \in SampleTuples(lp.ufunc_inputs), kout \in SampleTuples(lp.outtypecodes),
          ub \in UBOutcomes, fpe \in BOOLEAN :
          /\ largs' = [ufunc |-> files["_ufuncs.pyx"].toplevel[u].name,
                       row |-> j,
                       data |-> files["_ufuncs.pyx"].toplevel[u].ptr[j]]
          /\ loop' = lp
          /\ elem' = LoopBody(lp, largs'.data[2], ip, kout, ub)
          /\ args' = BaseAddresses(lp)
          /\ steps' = Contiguous(lp)
          /\ stored' = Stores(lp, args', elem'.op)
          /\ cursors' = Advance(args', steps')
          /\ sf_error' = elem'.errors \o
                            (IF fpe THEN <<SfError(largs'.data[2], "floating point error")>>
                             ELSE <<>>)
    /\ dims' = 1
    /\ i' = 1
    /\ check_fpe' = 1
    /\ pc' = "called"
    /\ UNCHANGED <<genvars, itervars, scalarvars, mainvars, parsevars>>

NextMain ==
    ParseUfuncs \/ GenerateUfuncs \/ ParseFused \/ GenerateFusedFuncs \/ CallUfunc

SpecMain == InitMain /\ [][NextMain]_vars

(***************************************************************************)
(* Notions the properties are stated in.                                   *)
(***************************************************************************)
\* The precedence rank of a code: i < l < f < d < g < F < D < G.
Rank(c) == CASE c = "i" -> 0 [] c = "l" -> 1 [] c = "f" -> 2 [] c = "d" -> 3
             [] c = "g" -> 4 [] c = "F" -> 5 [] c = "D" -> 6 [] c = "G" -> 7

\* Rank tuples of a and b are equal / a's is lexicographically smaller.
RankEqual(a, b) == Len(a) = Len(b) /\ \A j \in DOMAIN a : Rank(a[j]) = Rank(b[j])
RankLess(a, b) ==
    \/ \E j \in DOMAIN a \cap DOMAIN b :
          /\ Rank(a[j]) < Rank(b[j])
          /\ \A m \in 1..(j - 1) : Rank(a[m]) = Rank(b[m])
    \/ Len(a) < Len(b) /\ \A m \in DOMAIN a : Rank(a[m]) = Rank(b[m])

\* Position of a kernel in the registry line.
KernelIndex(name) == CHOOSE k \in DOMAIN KernelNames : KernelNames[k] = name

\* The int-to-long and the reduced-precision image of one code.
ToLong(c) == IF c = "i" THEN "l" ELSE c
ToSingle(c) == CASE c = "d" -> "f" [] c = "D" -> "F" [] OTHER -> ToLong(c)
Canonical(s) == [k \in DOMAIN s |-> ToLong(s[k])]
Reduced(s) == [k \in DOMAIN s |-> ToSingle(s[k])]
HasInteger(s) == \E k \in DOMAIN s : s[k] \in {"i", "l"}

\* The input tuples the expansion of signature k produces.
BaseTuple(k) == Canonical(signatures[k].inarg)
ReducedTuples(k) ==
    IF HasInteger(signatures[k].inarg) THEN {} ELSE {Reduced(signatures[k].inarg)}
Produced(k) == {BaseTuple(k)} \cup ReducedTuples(k)

\* The rows of the table with input tuple t.
RowsOf(t) == {a \in DOMAIN variants : variants[a].inp = t}

Min(S) == CHOOSE x \in S : \A y \in S : x <= y

\* A row that is not its kernel's int-to-long base row.
IsReducedRow(r) ==
    LET sig == signatures[KernelIndex(r.func_name)]
    IN  r.inp # Canonical(sig.inarg) \/ r.outp # Canonical(SigOutp(sig))

(***************************************************************************)
(* C4.  The dispatch table of every group is sorted ascending by the rank  *)
(* tuple of its input codes, and rows with equal rank tuples keep          *)
(* declaration order.                                                      *)
(***************************************************************************)
C4_TableSortedStable ==
    pc = "table" =>
        \A a, b \in DOMAIN variants :
            a < b =>
                /\ ~RankLess(variants[b].inp, variants[a].inp)
                /\ RankEqual(variants[a].inp, variants[b].inp) =>
                      KernelIndex(variants[a].func_name)
                          <= KernelIndex(variants[b].func_name)

\* A table of three rows in which a row of kernelB was moved in front of one of kernelA.
C4_Witness ==
    /\ pc = "table"
    /\ Len(variants) >= 3
    /\ \E a, b \in DOMAIN variants :
          /\ a < b
          /\ variants[a].func_name = "kernelB"
          /\ variants[b].func_name = "kernelA"
          /\ variants[a].inp = BaseTuple(2)
          /\ variants[b].inp = BaseTuple(1)

RowMatches(r, call) ==
    /\ Len(call) = Len(r.inp)
    /\ \A j \in DOMAIN call : Rank(r.inp[j]) >= Rank(call[j])

C6_EarlierKernelMatchedFirst ==
    pc = "table" =>
        \A a, b \in DOMAIN variants :
            (/\ a < b
             /\ variants[a].func_name # variants[b].func_name
             /\ \E call \in [1..inarg_num -> TYPE_NAMES] :
                   RowMatches(variants[a], call) /\ RowMatches(variants[b], call))
            => KernelIndex(variants[a].func_name) < KernelIndex(variants[b].func_name)

(***************************************************************************)
(* C8.  Original statement: a group with an integer input in some          *)
(* signature has no reduced-precision row; in a group without integer      *)
(* inputs the reduced-precision input tuples are the image of the          *)
(* double-precision ones.                                                  *)
(***************************************************************************)
GroupHasInteger == \E k \in DOMAIN signatures : HasInteger(signatures[k].inarg)
BaseTuples == {BaseTuple(k) : k \in DOMAIN signatures}
ReducedRowTuples == {variants[a].inp : a \in {b \in DOMAIN variants : IsReducedRow(variants[b])}}

IsRealComplexGroup ==
    /\ Len(signatures) = 2
    /\ signatures[1].inarg = <<"d", "d">> /\ signatures[1].outarg = <<>>
    /\ signatures[1].ret = <<"d">>
    /\ signatures[2].inarg = <<"D", "D">> /\ signatures[2].outarg = <<>>
    /\ signatures[2].ret = <<"D">>

\* A row inp->outp of the named kernel stands before B's row (D,D).
RowBeforeComplex(name, inp, outp) ==
    \E a, b \in DOMAIN variants :
        /\ a < b
        /\ variants[a].func_name = name
        /\ variants[a].inp = inp
        /\ variants[a].outp = outp
        /\ variants[b].func_name = "kernelB"
        /\ variants[b].inp = <<"D", "D">>

C7_ReducedIffNoIntegerInput ==
    pc = "yielded" =>
        /\ vresult[1] = <<Canonical(vinputs), Canonical(voutputs)>>
        /\ Len(vresult) = IF HasInteger(vinputs) THEN 1 ELSE 2
        /\ Len(vresult) = 2 => vresult[2] = <<Reduced(vinputs), Reduced(voutputs)>>

\* Integer only among the outputs: the reduced-precision variant is still yielded.
C7_Witness ==
    /\ pc = "yielded"
    /\ HasInteger(voutputs)
    /\ Contains(vinputs, "d")
    /\ Len(vresult) = 2
    /\ vresult[2][1] # vresult[1][1]

(***************************************************************************)
(* Properties of the generated loop.                                       *)
(***************************************************************************)
LoopGenerated == pc \in {"generated", "running", "returned"}

\* C1: a generated loop has a round-trip guard on input slot j exactly when
\* (row input code j, kernel input code j) is in DANGEROUS_DOWNCAST, and on
\* output slot j exactly when (kernel output code j, row output code j) is.
C1_GuardsExactlyForDangerousPairs ==
    LoopGenerated =>
        /\ \A j \in DOMAIN loop.ufunc_inputs :
              j \in loop.input_checks
                  <=> <<loop.ufunc_inputs[j], loop.func_inputs[j]>> \in DANGEROUS_DOWNCAST
        /\ \A j \in DOMAIN loop.ufunc_outputs :
              j \in loop.output_checks
                  <=> <<loop.outtypecodes[j], loop.ufunc_outputs[j]>> \in DANGEROUS_DOWNCAST
        /\ loop.input_checks \subseteq DOMAIN loop.ufunc_inputs
        /\ loop.output_checks \subseteq DOMAIN loop.ufunc_outputs

\* A loop with a guarded input, a guarded output and an unguarded output.
C1_Witness ==
    /\ pc = "generated"
    /\ loop.input_checks = {1}
    /\ Len(loop.ufunc_outputs) = 2
    /\ loop.output_checks = {1}

\* The type of code c holds the value v exactly.
Representable(v, c) ==
    /\ ~v.nan
    /\ IsIntCode(c) => v.im = 0 /\ v.re % 4 = 0
                       /\ v.re \div 4 >= MinOf(c) /\ v.re \div 4 <= MaxOf(c)
    /\ IsRealCode(c) => v.im = 0
    /\ c \in {"f", "F"} => v.re % 2 = 0 /\ v.im % 2 = 0

\* The output slots of the last element whose (kernel code, row code) pair is
\* dangerous and whose row type does not hold the kernel's value.
FailedSlots ==
    {j \in DOMAIN loop.ufunc_outputs :
        /\ <<loop.outtypecodes[j], loop.ufunc_outputs[j]>> \in DANGEROUS_DOWNCAST
        /\ ~Representable(elem.ov[j], loop.ufunc_outputs[j])}

\* An element whose inputs passed their guards and which has exactly one
\* failed output slot.
OneFailedSlot ==
    /\ pc \in {"running", "returned"}
    /\ elem # <<>>
    /\ elem.called
    /\ Cardinality(FailedSlots) = 1

SentinelSlotAndOneError ==
    /\ \A j \in FailedSlots :
          elem.op[j] = IF IsIntCode(loop.ufunc_outputs[j])
                       THEN Whole(Wrap(BadPattern, loop.ufunc_outputs[j]))
                       ELSE NaN
    /\ Len(elem.errors) = 1
    /\ elem.errors[1].code = "DOMAIN"

\* C10 as stated: the failed slot gets the sentinel of the row's code, one
\* domain error is recorded, and every other slot gets the kernel's value
\* unchanged.
C10_OtherSlotsUnchanged ==
    OneFailedSlot =>
        /\ SentinelSlotAndOneError
        /\ \A k \in DOMAIN loop.ufunc_outputs \ FailedSlots : elem.op[k] = elem.ov[k]

\* C10: the failed slot gets the sentinel of the row's code, one domain
\* error is recorded, and every other slot gets the kernel's value cast to
\* the row's code: the value itself when the row's type holds it, else
\* (an unguarded narrowing such as double to float) the cast's rounding of it,
\* never the sentinel of an integer code.
C10_OtherSlotsCastUnguarded ==
    OneFailedSlot =>
        /\ SentinelSlotAndOneError
        /\ \A k \in DOMAIN loop.ufunc_outputs \ FailedSlots :
              /\ Representable(elem.ov[k], loop.ufunc_outputs[k])
                    => elem.op[k] = elem.ov[k]
              /\ elem.ov[k].nan => elem.op[k].nan
              /\ ~elem.ov[k].nan /\ ~Representable(elem.ov[k], loop.ufunc_outputs[k])
                    => /\ loop.ufunc_outputs[k] \in {"f", "F"}
                       /\ elem.op[k] = Cplx(RoundSingle(elem.ov[k].re),
                                            RoundSingle(elem.ov[k].im))

\* The kernel produced 1.5 for a slot declared int, next to a second slot.
C10_Witness ==
    /\ OneFailedSlot
    /\ Len(loop.ufunc_outputs) = 2
    /\ \E j \in FailedSlots : loop.ufunc_outputs[j] = "i" /\ elem.ov[j] = Real(6)

(***************************************************************************)
(* Properties of the scalar function against the loop.                     *)
(***************************************************************************)
\* The branch of the scalar function that handled the last test point.
TakenBranch == fused.branches[SelectBranch(fused, pt.typecodes)]

\* The input positions of the taken branch at which the public parameter
\* code and the kernel's parameter code form a pair of DANGEROUS_DOWNCAST.
NarrowedInputs ==
    {n \in DOMAIN TakenBranch.proto_in :
        <<TakenBranch.incodes[n], TakenBranch.proto_in[n]>> \in DANGEROUS_DOWNCAST}

\* C2: no branch of a scalar function passes an argument through a pair of
\* DANGEROUS_DOWNCAST without a guard: whenever the kernel of a branch is
\* invoked, each argument passed through such a pair is the value the caller
\* gave, as the round-trip guard of a loop ensures.
C2_NoUnguardedNarrowing ==
    pc = "checked" /\ cyres.called =>
        \A n \in NarrowedInputs : cyres.kargs[n] = pt.vals[n]

\* C3: for every specialization of a line and every point of its public
\* types, the ufunc and the scalar function invoke the same kernel with the
\* same arguments and deliver the same values.
C3_PathsAgree ==
    pc = "checked" =>
        /\ pyres.called = cyres.called
        /\ pyres.called => /\ pyres.func_name = cyres.func_name
                           /\ pyres.kargs = cyres.kargs
        /\ pyres.out = cyres.out

\* The int-to-long input tuples of the signatures of the line.
CanonicalTuples == {Replace(signatures[k].inarg, "i", "l") : k \in DOMAIN signatures}

\* C11: a call of the scalar function of a line with several signatures in
\* a specialization that is no signature's int-to-long input tuple invokes
\* no kernel and returns the sentinel of the return code; a kernel is
\* invoked only in the specialization that is its own int-to-long tuple.
C11_KernelOnlyForItsOwnTuple ==
    pc = "called" /\ Len(signatures) > 1 =>
        /\ pt.typecodes \notin CanonicalTuples
              => /\ ~cyres.called
                 /\ cyres.out = <<IF IsIntCode(ReturnCode(fused, pt.typecodes))
                                  THEN Whole(Wrap(BadPattern, ReturnCode(fused, pt.typecodes)))
                                  ELSE NaN>>
        /\ cyres.called
              => \E k \in DOMAIN signatures :
                    /\ signatures[k].func_name = cyres.func_name
                    /\ Replace(signatures[k].inarg, "i", "l") = pt.typecodes

\* The trailing else is reached: a specialization of two fused types that
\* no signature declares.
ElseReached ==
    /\ pc = "called"
    /\ ~cyres.called
    /\ pt.typecodes \notin CanonicalTuples

\* main() as one function of the registry text: the exception that ends the
\* run, if any, and the files written by then.
MainEnd(written, g) == [err |-> g.err, files |-> g.files @@ written]

MainFused(written, r) ==
    IF r.err # NoError THEN [err |-> r.err, files |-> written]
    ELSE MainEnd(written, generate_fused_funcs(r.objs))

MainWritten(text, g) ==
    IF g.err # NoError THEN [err |-> g.err, files |-> <<>>]
    ELSE MainFused(g.files, parse_all("FusedFunc", text))

MainParsed(text, r) ==
    IF r.err # NoError THEN [err |-> r.err, files |-> <<>>]
    ELSE MainWritten(text, generate_ufuncs(r.objs))

main(text) == MainParsed(text, parse_all("Ufunc", text))

\* The run of main has ended, with all files written or with an exception.
MainEnded == pc \in {"done", "failed"}

\* The orders in which the lines of the text can be written.
Orderings(text) ==
    {[k \in DOMAIN text |-> text[p[k]]] :
        p \in {q \in [DOMAIN text -> DOMAIN text] :
                  \A a, b \in DOMAIN text : q[a] = q[b] => a = b}}

\* The names in the sequence q ascend in the order of Python strings.
AscendingNames(q) ==
    \A a, b \in DOMAIN q : a < b => ~NameLess(q[b], q[a])

C13_NoArtifactOnError ==
    pc = "failed" => DOMAIN files = {}

\* Two signatures of the line differ in their number of inputs or of output
\* slots (the declared outputs and a return value that is not ignored).
ArityMismatch(line) ==
    \E a, b \in {parse_signature(<<>>, LineBodies[line.body].sigs[k]) :
                     k \in DOMAIN LineBodies[line.body].sigs} :
        \/ Len(a.inarg) # Len(b.inarg)
        \/ Len(SigOutp(a)) # Len(SigOutp(b))

\* C14: a registry with a line whose signatures differ in arity is not
\* generated: its run does not end without an error.
C14_ArityMismatchFails ==
    pc = "done" => \A k \in DOMAIN FUNCS : ~ArityMismatch(FUNCS[k])

\* C15: with n signatures and h headers, h = 1 attaches the one header to
\* every signature, h = n attaches header k to signature k, and every other
\* h is an error that names the group.  (A clause that does not parse is
\* another error, raised after the headers are counted.)
C15_HeadersBroadcastOrPaired ==
    pc = "parsed" =>
        LET n == Len(arg_sigs)
            h == Len(arg_headers)
        IN  /\ h # 1 /\ h # n =>
                 /\ returned.err = "ValueError: Number of headers and signatures doesn't match"
                 /\ returned.msg_name = self_name
            /\ h = 1 \/ h = n =>
                 /\ returned.err # "ValueError: Number of headers and signatures doesn't match"
                 /\ returned.err = NoError =>
                       /\ Len(returned.signatures) = n
                       /\ \A k \in 1..n :
                             returned.signatures[k].header =
                                 IF h = 1 THEN arg_headers[1] ELSE arg_headers[k]

\* Two signatures given two different headers have been parsed, each with
\* its own.
C15_Witness ==
    /\ pc = "parsed"
    /\ Len(arg_sigs) = 2
    /\ Len(arg_headers) = 2
    /\ arg_headers[1] # arg_headers[2]
    /\ returned.err = NoError
    /\ returned.signatures[1].header # returned.signatures[2].header

\* q is a sequence of codes.
IsCodes(q) == \A k \in DOMAIN q : q[k] \in PatternCodes

\* The clause is derivable from the grammar
\*   name ':' inputs ['*' outputs] '->' retval ['*' ignored_retval]
\* with retval and ignored_retval of at most one code each.
Derivable(sig) ==
    \E colon, arrow \in DOMAIN sig :
        /\ colon < arrow
        /\ sig[colon] = ":"
        /\ sig[arrow] = "->"
        /\ LET between == SubSeq(sig, colon + 1, arrow - 1)
               ret == SubSeq(sig, arrow + 1, Len(sig))
           IN  /\ \/ IsCodes(between)
                  \/ \E k \in DOMAIN between :
                        /\ between[k] = "*"
                        /\ IsCodes(SubSeq(between, 1, k - 1))
                        /\ IsCodes(SubSeq(between, k + 1, Len(between)))
               /\ \/ IsCodes(ret) /\ Len(ret) <= 1
                  \/ \E k \in DOMAIN ret :
                        /\ ret[k] = "*"
                        /\ k <= 2
                        /\ Len(ret) <= k + 1
                        /\ IsCodes(SubSeq(ret, 1, k - 1))
                        /\ IsCodes(SubSeq(ret, k + 1, Len(ret)))

\* C16: a clause that is not derivable from the grammar is rejected with an
\* error that names the group.
C16_UnderivableClauseRejected ==
    pc = "matched" /\ ~Derivable(arg_sigs[1]) =>
        /\ returned.err # NoError
        /\ returned.msg_name = self_name

\* A clause with two codes in its return part has been accepted.
C16_TwoReturnCodesAccepted ==
    /\ pc = "matched"
    /\ arg_sigs[1] = Clause(<<"k">>, <<"d">>, TRUE, <<"d">>, <<"d", "d">>)
    /\ returned.err = NoError
    /\ returned.ret = <<"d", "d">>

\* The signature has no output parameter and no return value that is used.
ZeroOutput(sig) == Len(SigOutp(sig)) = 0

\* The lines of the registry that have a signature with no output.
ZeroOutputLines ==
    {k \in DOMAIN FUNCS :
        \E j \in DOMAIN LineBodies[FUNCS[k].body].sigs :
            ZeroOutput(parse_signature(<<>>, LineBodies[FUNCS[k].body].sigs[j]))}

\* C17: a registry with a group that has a signature with no output slot is
\* not generated, and no ufunc is registered with zero output slots.
C17_ZeroOutputGroupFails ==
    /\ pc = "done" => ZeroOutputLines = {}
    /\ "_ufuncs.pyx" \in DOMAIN files =>
          \A k \in DOMAIN files["_ufuncs.pyx"].toplevel :
              files["_ufuncs.pyx"].toplevel[k].nout > 0

\* The forward declarations of kernels in a list of emitted lines.
ForwardDeclarations(q) == {k \in DOMAIN q : q[k].line \in {"cdef", "prototype"}}

\* No forward declaration stands twice in the list.
DeclaredOnce(q) ==
    \A a, b \in ForwardDeclarations(q) : q[a].c_name = q[b].c_name => a = b

\* C18: each kernel's forward declaration is emitted once, in the Cython
\* declaration lists and in the C prototype header lists.
C18_DeclaredOnce ==
    /\ "_ufuncs.pyx" \in DOMAIN files =>
          /\ DeclaredOnce(files["_ufuncs.pyx"].defs)
          /\ DeclaredOnce(files["_ufuncs_cxx.pyx"])
          /\ DeclaredOnce(files["_ufuncs_defs.h"])
          /\ DeclaredOnce(files["_ufuncs_cxx_defs.h"])
    /\ "cython_special.pyx" \in DOMAIN files =>
          DeclaredOnce(files["cython_special.pyx"].defs)

\* The name is that of an export slot of the module _ufuncs_cxx.
IsSlotName(name) == name # <<>> /\ name[1] = "scipy.special._ufuncs_cxx._export_"

\* The export slots the bridge artifact _ufuncs_cxx.pxd declares, as they
\* are named from other modules.
DeclaredSlots ==
    {<<"scipy.special._ufuncs_cxx._export_">> \o Tail(files["_ufuncs_cxx.pxd"][k].name) :
        k \in {j \in DOMAIN files["_ufuncs_cxx.pxd"] :
                  files["_ufuncs_cxx.pxd"][j].line = "cdef void *"}}

\* The elements of a sequence.
Range(q) == {q[k] : k \in DOMAIN q}

\* The slot names in the function-pointer tables of the ufuncs.
TableSlots ==
    {name \in UNION {{p[1] : p \in Range(t.ptr)} :
                        t \in Range(files["_ufuncs.pyx"].toplevel)} : IsSlotName(name)}

\* The slot names the scalar dispatch functions call.
FusedSlots ==
    {name \in UNION {Range(src.calls) : src \in Range(files["cython_special.pyx"].sources)} :
        IsSlotName(name)}

\* The names of the foreign-linked kernels of the registry.
CxxKernels ==
    UNION {{sig.func_name : sig \in {x \in Range(f.signatures) : IsCxxHeader(x.header)}} :
              f \in Range(ufuncs)}

\* C19: the slot of a foreign-linked kernel has one name in the bridge
\* artifact, in the function-pointer table of the ufunc and in the scalar
\* dispatch function, and two such kernels never share a slot.
C19_SlotNamesAgree ==
    pc = "done" =>
        /\ TableSlots \subseteq DeclaredSlots
        /\ FusedSlots \subseteq DeclaredSlots
        /\ Cardinality(DeclaredSlots) = Cardinality(CxxKernels)

\* C20 (as amended): every row of every table holds, at ptr[2j+1], the name
\* of its group, which is the name of a line of the registry; and every
\* error a loop reports, for an input that fails its guard and for the
\* floating-point flags at its end, carries the name its row holds.
C20_ErrorsTaggedWithGroupName ==
    /\ "_ufuncs.pyx" \in DOMAIN files =>
          \A t \in Range(files["_ufuncs.pyx"].toplevel) :
              /\ \E k \in DOMAIN FUNCS : LineNames[FUNCS[k].name] = t.name
              /\ \A j \in DOMAIN t.ptr : t.ptr[j][2] = t.name
    /\ pc = "called" =>
          \A e \in Range(sf_error) :
              /\ e.func_name = largs.data[2]
              /\ e.func_name = largs.ufunc

\* C20 (as stated): the name an error carries is never the name of the
\* kernel of the row.
C20_NeverKernelName ==
    pc = "called" =>
        \A e \in Range(sf_error) : <<"_func_">> \o e.func_name # largs.data[1]

\* A loop of a registry of two groups has reported an invalid input argument
\* and a floating-point error.
C20_Witness ==
    /\ pc = "called"
    /\ Len(FUNCS) = 2
    /\ FUNCS[1].name # FUNCS[2].name
    /\ ~elem.called
    /\ Len(sf_error) = 2

(***************************************************************************)
(* Properties of one element of a generated loop.                          *)
(***************************************************************************)
\* An element of the loop has been processed.
ElementDone == pc \in {"running", "returned"} /\ elem # <<>>

\* The input slots of the loop whose (row code, kernel code) pair is in
\* DANGEROUS_DOWNCAST.
GuardedInputs ==
    {j \in DOMAIN loop.ufunc_inputs :
        <<loop.ufunc_inputs[j], loop.func_inputs[j]>> \in DANGEROUS_DOWNCAST}

\* The guarded inputs of the last element that the kernel's parameter type
\* does not hold: the round trip through the cast changes them.
FailedInputs == {j \in GuardedInputs : ~Representable(elem.ip[j], loop.func_inputs[j])}

\* The reports of the last element with the message msg.
Reports(msg) == {k \in DOMAIN elem.errors : elem.errors[k].msg = msg}

\* The holder of kernel output code c holds the sentinel: 0xbad0bad0 as the
\* integer type takes it, NaN for the floating and complex codes.
IsSentinelOf(v, c) ==
    IF IsIntCode(c) THEN v = Whole(Wrap(BadPattern, c)) ELSE v.nan

\* C21: in a loop with a guarded input, an element with a failing guarded
\* input does not invoke the kernel, reports "invalid input argument" once
\* and sets every holder, the one of the return value included, to the
\* sentinel of its kernel output code; an element whose guarded inputs all
\* pass invokes the kernel once, with the inputs cast to its parameter types.
C21_FailedInputSkipsKernel ==
    ElementDone /\ GuardedInputs # {} =>
        /\ FailedInputs # {} =>
              /\ ~elem.called
              /\ elem.kargs = <<>>
              /\ Cardinality(Reports("invalid input argument")) = 1
              /\ DOMAIN elem.ov = DOMAIN loop.outtypecodes
              /\ \A j \in DOMAIN loop.outtypecodes :
                    IsSentinelOf(elem.ov[j], loop.outtypecodes[j])
        /\ FailedInputs = {} =>
              /\ elem.called
              /\ Len(elem.kargs) = Len(loop.func_inputs)
              /\ \A j \in GuardedInputs : elem.kargs[j] = elem.ip[j]
              /\ Reports("invalid input argument") = {}

\* Two guarded inputs fail in one element of a loop that has a holder for
\* the return value and one for an output parameter.
C21_Witness ==
    /\ ElementDone
    /\ Cardinality(FailedInputs) = 2
    /\ loop.func_joff = 1
    /\ Len(loop.outtypecodes) = 2

(***************************************************************************)
(* Properties of the iterations of a generated loop.                       *)
(***************************************************************************)
\* The position of output slot j among the arrays of the call.
OutputArg(j) == Len(loop.ufunc_inputs) + j

CountsAdmitted ==
    /\ Len(largs.func_inputs) = Len(largs.ufunc_inputs)
    /\ \/ Len(largs.ufunc_outputs) = Len(largs.func_outputs)
       \/ /\ Len(largs.ufunc_outputs) = Len(largs.func_outputs) + 1
          /\ largs.func_retval # <<"v">>

\* Output slot j of the last element got the value v of the kernel, where
\* the row's type holds v.
SlotHolds(j, v) ==
    /\ elem.ov[j] = v
    /\ Representable(v, loop.ufunc_outputs[j]) => elem.op[j] = v

\* C23: generate_loop produces a loop exactly for the admitted counts and
\* raises, with no loop text, for all others; in a row with one more output
\* than the kernel has output parameters the return value goes to slot 0 and
\* output parameter k to slot k + 1, and with equal counts output parameter
\* k goes to slot k and the return value to no slot.
C23_ReturnValueInSlotZero ==
    /\ pc # "args" =>
          /\ pc = "rejected" <=> ~CountsAdmitted
          /\ pc = "rejected" => DOMAIN loop = {"err", "name"} /\ loop.err # NoError
    /\ ElementDone /\ elem.called =>
          IF Len(loop.ufunc_outputs) = Len(loop.func_outputs) + 1
          THEN /\ SlotHolds(1, elem.retval)
               /\ \A k \in DOMAIN loop.func_outputs : SlotHolds(k + 1, elem.outputs[k])
          ELSE /\ Len(elem.ov) = Len(loop.func_outputs)
               /\ \A k \in DOMAIN loop.func_outputs : SlotHolds(k, elem.outputs[k])

\* A row of two outputs for a kernel with one output parameter, called with
\* a return value that differs from the output parameter's value.
C23_Witness ==
    /\ ElementDone
    /\ elem.called
    /\ Len(loop.ufunc_outputs) = 2
    /\ Len(loop.func_outputs) = 1
    /\ elem.retval # elem.outputs[1]
    /\ elem.op[1] = elem.retval
    /\ elem.op[2] = elem.outputs[1]

(***************************************************************************)
(* Properties of the pairs iter_variants yields.                           *)
(***************************************************************************)
\* C24: the pairs yielded by iter_variants for a pair of code strings
\* include that pair itself, unchanged.
C24_OriginalPairYielded ==
    pc = "yielded" => \E k \in DOMAIN vresult : vresult[k] = <<vinputs, voutputs>>

(***************************************************************************)
(* Properties of the call shape of a scalar function.                      *)
(***************************************************************************)
\* A signature has a return code that is not ignored, has output parameters.
HasReturn(sig) == StripIgnored(sig.ret) # <<>>
HasOutargs(sig) == sig.outarg # <<>>

\* The statement form of each call shape.
FormOf(shape) ==
    CASE shape = "return_and_no_outargs" -> "return"
      [] shape = "outargs_and_no_return" -> "call"
      [] shape = "outargs_and_return" -> "assign y0[0]"

\* C25: the call shape of a scalar function is decided by the first
\* signature of its line: return-style for a return code and no output
\* parameter, out-parameter style for output parameters and no return code,
\* out-parameter-plus-return style (the value assigned to y0[0], the
\* function void) for both, the error "Invalid signature" for neither and
\* for nothing else; the statement of every signature of the line has the
\* form of that shape.
C25_ShapeOfFirstSignature ==
    /\ pc = "fused" =>
          /\ HasReturn(signatures[1]) \/ HasOutargs(signatures[1])
          /\ fused.shape =
                (IF ~HasOutargs(signatures[1]) THEN "return_and_no_outargs"
                 ELSE IF ~HasReturn(signatures[1]) THEN "outargs_and_no_return"
                 ELSE "outargs_and_return")
          /\ DOMAIN fused.stmts = DOMAIN signatures
          /\ \A k \in DOMAIN signatures : fused.stmts[k].form = FormOf(fused.shape)
          /\ fused.shape = "outargs_and_return" => fused.returns = "void"
    /\ pc = "failed" /\ fused # <<>> =>
          /\ fused.err # NoError
          /\ fused.err = "ValueError: Invalid signature"
                => ~HasReturn(signatures[1]) /\ ~HasOutargs(signatures[1])

\* A line whose first signature returns its value and whose second one has
\* an output parameter: both calls are emitted as return statements.
C25_Witness ==
    /\ pc = "fused"
    /\ Len(signatures) = 2
    /\ HasReturn(signatures[1]) /\ ~HasOutargs(signatures[1])
    /\ ~HasReturn(signatures[2]) /\ HasOutargs(signatures[2])
    /\ fused.stmts[2].form = "return"

(***************************************************************************)
(* Properties of the guards in the loops of a dispatch table.              *)
(***************************************************************************)
\* The loops of the rows of the table.
RowLoops == {l \in all_loops : \E a \in DOMAIN variants : variants[a].loop_name = l.name}

\* C26: in the loops of the rows derived from the signatures of a line, a
\* guarded input is a long row input for an int kernel parameter and every
\* such input is guarded; no output is guarded, the outputs narrowed from
\* double to float and from double complex to float complex included.
C26_OnlyLongToIntGuarded ==
    pc \in {"table", "fused"} =>
        \A l \in RowLoops :
            /\ l.output_checks = {}
            /\ \A j \in DOMAIN l.ufunc_inputs :
                  j \in l.input_checks
                      <=> l.ufunc_inputs[j] = "l" /\ l.func_inputs[j] = "i"
            /\ \A j \in DOMAIN l.ufunc_outputs :
                  <<l.outtypecodes[j], l.ufunc_outputs[j]>>
                      \in {<<"i", "l">>, <<"d", "f">>, <<"D", "F">>}
                            \cup {<<c, c>> : c \in TYPE_NAMES}

\* A table with a row of a guarded long input, a row that narrows a double
\* output to float and a row that widens an int output to long.
C26_Witness ==
    /\ pc = "table"
    /\ \E l \in RowLoops : l.input_checks = {1}
    /\ \E l \in RowLoops : \E j \in DOMAIN l.ufunc_outputs :
          l.outtypecodes[j] = "d" /\ l.ufunc_outputs[j] = "f"
    /\ \E l \in RowLoops : \E j \in DOMAIN l.ufunc_outputs :
          l.outtypecodes[j] = "i" /\ l.ufunc_outputs[j] = "l"

(***************************************************************************)
(* Properties of the rows of one dispatch table.                           *)
(***************************************************************************)
\* The rows of the table that call the kernel of signature k.
RowsOfKernel(k) == {a \in DOMAIN variants : variants[a].func_name = KernelNames[k]}

\* C27: the rows of a table have pairwise distinct input tuples and stand in
\* strictly ascending order of rank tuple; no signature has more than two
\* rows; a signature whose int-to-long input tuple is that of no signature
\* declared before it owns the row of that tuple.
C27_DistinctTuplesStrictOrder ==
    pc = "table" =>
        /\ \A a, b \in DOMAIN variants :
              a < b => /\ variants[a].inp # variants[b].inp
                       /\ RankLess(variants[a].inp, variants[b].inp)
        /\ \A k \in DOMAIN signatures : Cardinality(RowsOfKernel(k)) <= 2
        /\ \A k \in DOMAIN signatures :
              (\A m \in 1..(k - 1) : BaseTuple(m) # BaseTuple(k))
                  => \E a \in RowsOfKernel(k) : variants[a].inp = BaseTuple(k)

\* A line of an int and a long kernel, whose tuples coincide after the
\* replacement of int by long: one row, of the first.
C27_Witness ==
    /\ pc = "table"
    /\ Len(signatures) = 2
    /\ signatures[1].inarg # signatures[2].inarg
    /\ BaseTuple(1) = BaseTuple(2)
    /\ Len(variants) = 1
    /\ RowsOfKernel(2) = {}

(***************************************************************************)
(* Properties of the reports of one element.                               *)
(***************************************************************************)
\* C28: an element of any generated loop whose input guard fails records
\* exactly one domain error: the sentinels in the holders raise no
\* "invalid output" in the output guards of that element.
C28_OneErrorOnInputFailure ==
    ElementDone /\ FailedInputs # {} =>
        /\ Len(elem.errors) = 1
        /\ Reports("invalid output") = {}

(***************************************************************************)
(* Properties of the specializations a scalar function lists.              *)
(***************************************************************************)
\* The codes of the values behind the output pointers y0, y1, ... in the
\* call of signature sig: the return value's, then the output parameters'.
PointerCodes(sig) ==
    StripIgnored(Replace(sig.ret, "i", "l")) \o Replace(sig.outarg, "i", "l")

\* C29: for a function of out-parameter-plus-return shape, the output codes
\* of each listed specialization "in*out->v" stand in the order of the
\* output pointers: the code of the return value first, then the codes of
\* the output parameters, each a code of the type of its pointer.
C29_SpecializationInPointerOrder ==
    pc = "fused" /\ fused.shape = "outargs_and_return" =>
        \A k \in DOMAIN signatures :
            /\ fused.specs[k].outp = PointerCodes(signatures[k])
            /\ \A n \in DOMAIN fused.outcodes :
                  Contains(fused.outcodes[n], fused.specs[k].outp[n])

(***************************************************************************)
(* Properties of the if/elif ladder of a scalar function.                  *)
(***************************************************************************)
\* Two branch conditions cannot hold together: they test one fused type
\* for different types.
Exclusive(c1, c2) == \E a \in c1, b \in c2 : a.typ = b.typ /\ a.code # b.code

\* C30: in the scalar function of a line with two or more signatures every
\* kernel call stands under a branch condition of its own, the conditions
\* of different signatures are mutually exclusive, and the trailing else
\* follows a ladder that is not empty.
C30_CallsUnderExclusiveConditions ==
    pc = "fused" /\ Len(signatures) >= 2 =>
        /\ \A k \in DOMAIN fused.branches : fused.branches[k].cond # {}
        /\ \A j, k \in DOMAIN fused.branches :
              j < k => Exclusive(fused.branches[j].cond, fused.branches[k].cond)
        /\ fused.has_else => \E k \in DOMAIN fused.branches : fused.branches[k].cond # {}

====
